---- MODULE Spec2Model ----
(***************************************************************************)
(* neural-cortex, AI orchestration and knowledge-graph ingestion:          *)
(*  - the completion gateway: nvidiaChat (blocking completion with model   *)
(*    fallback) and nvidiaChatStream (streamed completion, one model, SSE  *)
(*    re-framing); one behaviour of Spec is one gateway call, and          *)
(*    ChatLiveSpec is nvidiaChat alone with its steps always resumed;      *)
(*  - the extractors generateSummary, extractEntitiesWithTypes and         *)
(*    extractKeyPoints (ExtractSpec);                                      *)
(*  - document ingestion and the merge of a document's entities into the   *)
(*    owner's knowledge graph, processDocumentWithAI: requests served one  *)
(*    after the other (SeqSpec) and enrichments that overlap (ConcSpec);   *)
(*  - the bag-of-characters embedding generateEmbeddingSimple (EmbedSpec). *)
(***************************************************************************)
EXTENDS Integers, Sequences, FiniteSets, TLC

VARIABLES
  apiKey,       \* NVIDIA_API_KEY is set (a non-empty string)
  call,         \* which function the caller invoked: "none", "chat", "stream"
  pc,           \* position of the call
  optModel,     \* options.model ("" when the caller gave none)
  modelsToTry,  \* nvidiaChat: the candidate list
  idx,          \* nvidiaChat: position of the for loop in modelsToTry
  lastError,    \* nvidiaChat: lastError
  timer,        \* fetchWithTimeout: the abort timer is armed
  resp,         \* status of the response the fetch resolved with
  netCalls,     \* models of the fetch calls issued, in order
  attempts,     \* per candidate, in order: its model and how it ended
  result,       \* value the call resolved with
  thrown,       \* error the call rejected with
  out,          \* state of the returned ReadableStream ("none" before it exists)
  queue,        \* events enqueued and not yet read by the consumer
  closeReq,     \* close() was called while the queue was not empty
  pullPhase,    \* "idle", "reading" (pull awaits reader.read()), "settling"
  pullAgain,    \* the stream asked for another pull while one was running
  readReq,      \* pending read requests of the consumer (0 or 1)
  consumer,     \* "reading", "done", "failed", "cancelled"
  upstream,     \* chunks the upstream reader has delivered, in order
  upEnd,        \* how the upstream ended for the gateway: "open", "done", "DONE", "error"
  decoderRest,  \* bytes the TextDecoder holds back (an incomplete character)
  readerCancelled, \* reader.cancel() was called
  emitted,      \* every event enqueued so far, in order
  exPc,         \* extractor call: "idle", "chat", "settled", "returned", "thrown"
  exFn,         \* which extractor was called
  exChat,       \* what the extractor's nvidiaChat call settled with
  exOut,        \* what the extractor returned or threw
  documents,    \* Document rows of the store
  nodes,        \* KnowledgeNode rows of the store, in order of creation
  proc,         \* the running processDocumentWithAI invocations
  merges,       \* the invocations that ran to their end, in order
  emPc,         \* position of the generateEmbeddingSimple call
  emText,       \* its argument text, a sequence of character codes
  emOut         \* the vector it returned

chatVars == <<modelsToTry, idx, lastError, attempts>>
streamVars == <<out, queue, closeReq, pullPhase, pullAgain, readReq, consumer,
                upstream, upEnd, decoderRest, readerCancelled, emitted>>
gatewayVars == <<apiKey, call, pc, optModel, modelsToTry, idx, lastError, timer,
                 resp, netCalls, attempts, result, thrown, streamVars>>
extractVars == <<exPc, exFn, exChat, exOut>>
mergeVars == <<documents, nodes, proc, merges>>
embedVars == <<emPc, emText, emOut>>
vars == <<gatewayVars, extractVars, mergeVars, embedVars>>

----------------------------------------------------------------------------
(* Constants of the source *)

MODELS ==
  << "meta/llama-3.3-70b-instruct",
     "meta/llama-3.1-70b-instruct",
     "mistralai/mistral-large-2-instruct" >>

\* options.model as the caller may give it: absent, a model outside MODELS,
\* a model that is also in MODELS
CallerModels == {"", "custom/model", MODELS[2]}

Null == "<null>"
None == "<none>"

ConfigError   == "NVIDIA_API_KEY is not configured"
AllFailed     == "All AI models failed"
EmptyResponse == "Empty response from AI"
AbortError    == "AbortError: This operation was aborted"
FetchFailed   == "TypeError: fetch failed"
BodyReadError == "TypeError: terminated"
JsonError     == "SyntaxError: Unexpected token"
NoBodyError   == "No response body for streaming"

OkStatuses   == {200}
FailStatuses == {429, 500}

HttpError(status) ==
  IF status = 429 THEN "NVIDIA API error: 429" ELSE "NVIDIA API error: 500"

StreamHttpError(status) ==
  IF status = 429 THEN "NVIDIA API stream error 429" ELSE "NVIDIA API stream error 500"

\* data.choices?.[0]?.message?.content as the provider may send it
Contents == {"", "<undefined>", "Hello", "Hi"}

Falsy(content) == content \in {"", "<undefined>"}

----------------------------------------------------------------------------
(* nvidiaChat *)

KeyMissingNever == FALSE

\* !NVIDIA_API_KEY
KeyMissing == ~apiKey

ModelsToTryModelLast(model) == IF model # "" THEN MODELS \o <<model>> ELSE MODELS

\* model ? [model, ...MODELS] : MODELS
ModelsToTry(model) == IF model # "" THEN <<model>> \o MODELS ELSE MODELS

KeepFirstError(old, cause) == IF old = Null THEN cause ELSE old

\* lastError = <the candidate's failure>
SetLastError(old, cause) == cause

\* throw lastError || new Error('All AI models failed')
Exhausted(err) == IF err # Null THEN err ELSE AllFailed

\* the call is rejected with err
Throw(err) ==
  /\ pc' = "thrown"
  /\ thrown' = err

\* a failure after which the same candidate is tried again
CandidateRetried(cause) ==
  /\ lastError' = SetLastError(lastError, cause)
  /\ attempts' = Append(attempts, [model |-> modelsToTry[idx], outcome |-> cause,
                                   content |-> None])
  /\ idx' = idx
  /\ pc' = "loop"
  /\ UNCHANGED <<modelsToTry, thrown, result>>

\* the current candidate failed: record the cause, continue with the next one
CandidateFails(cause) ==
  /\ lastError' = SetLastError(lastError, cause)
  /\ attempts' = Append(attempts, [model |-> modelsToTry[idx], outcome |-> cause,
                                   content |-> None])
  /\ idx' = idx + 1
  /\ pc' = "loop"
  /\ UNCHANGED <<modelsToTry, thrown, result>>

\* a candidate failure that leaves the call instead of continuing
CandidateFailsAborting(cause) ==
  /\ lastError' = SetLastError(lastError, cause)
  /\ attempts' = Append(attempts, [model |-> modelsToTry[idx], outcome |-> cause,
                                   content |-> None])
  /\ Throw(cause)
  /\ UNCHANGED <<modelsToTry, idx, result>>

\* a catch that lets the abort of the timeout leave the call
CaughtAbortRethrown(cause) ==
  IF cause = AbortError THEN CandidateFailsAborting(cause) ELSE CandidateFails(cause)

\* catch (err) { lastError = err; continue }
Caught(cause) == CandidateFails(cause)

ChatCall(m) ==
  /\ pc = "idle"
  /\ call' = "chat"
  /\ optModel' = m
  /\ IF KeyMissing
       THEN /\ Throw(ConfigError)
            /\ UNCHANGED <<modelsToTry, idx, lastError>>
       ELSE /\ pc' = "loop"
            /\ modelsToTry' = ModelsToTry(m)
            /\ idx' = 1
            /\ lastError' = Null
            /\ UNCHANGED thrown
  /\ UNCHANGED <<apiKey, timer, resp, netCalls, attempts, result, streamVars>>
  /\ UNCHANGED <<extractVars, mergeVars, embedVars>>

\* for (const currentModel of modelsToTry): fetchWithTimeout arms the timer
\* and issues the request
ChatFetch ==
  /\ call = "chat" /\ pc = "loop"
  /\ idx <= Len(modelsToTry)
  /\ netCalls' = Append(netCalls, modelsToTry[idx])
  /\ timer' = TRUE
  /\ pc' = "fetch"
  /\ UNCHANGED <<apiKey, call, optModel, chatVars, resp, result, thrown, streamVars>>
  /\ UNCHANGED <<extractVars, mergeVars, embedVars>>

\* the fetch resolves with a response; finally { clearTimeout(timer) }
ChatFetchResponds(status) ==
  /\ call = "chat" /\ pc = "fetch"
  /\ timer' = FALSE
  /\ resp' = status
  /\ pc' = IF status \in OkStatuses THEN "okBody" ELSE "errBody"
  /\ UNCHANGED <<apiKey, call, optModel, chatVars, netCalls, result, thrown, streamVars>>
  /\ UNCHANGED <<extractVars, mergeVars, embedVars>>

\* the timer fires (controller.abort()) or the transport fails: fetch rejects
ChatFetchRejects(cause) ==
  /\ call = "chat" /\ pc = "fetch"
  /\ cause = AbortError => timer
  /\ timer' = FALSE
  /\ Caught(cause)
  /\ UNCHANGED <<apiKey, call, optModel, resp, netCalls, streamVars>>
  /\ UNCHANGED <<extractVars, mergeVars, embedVars>>

\* if (!response.ok) { await response.text(); lastError = ...; continue }
ChatErrBody(readOk) ==
  /\ call = "chat" /\ pc = "errBody"
  /\ IF readOk THEN CandidateFails(HttpError(resp)) ELSE Caught(BodyReadError)
  /\ UNCHANGED <<apiKey, call, optModel, timer, resp, netCalls, streamVars>>
  /\ UNCHANGED <<extractVars, mergeVars, embedVars>>

\* const data = await response.json(); content empty: next candidate,
\* otherwise return content
ChatOkBody(parsed, content) ==
  /\ call = "chat" /\ pc = "okBody"
  /\ IF ~parsed THEN Caught(JsonError)
     ELSE IF Falsy(content) THEN CandidateFails(EmptyResponse)
     ELSE /\ pc' = "returned"
          /\ result' = content
          /\ attempts' = Append(attempts, [model |-> modelsToTry[idx], outcome |-> "ok",
                                           content |-> content])
          /\ UNCHANGED <<modelsToTry, idx, lastError, thrown>>
  /\ UNCHANGED <<apiKey, call, optModel, timer, resp, netCalls, streamVars>>
  /\ UNCHANGED <<extractVars, mergeVars, embedVars>>

\* the loop is over: throw lastError || new Error('All AI models failed')
ChatExhausted ==
  /\ call = "chat" /\ pc = "loop"
  /\ idx > Len(modelsToTry)
  /\ Throw(Exhausted(lastError))
  /\ UNCHANGED <<apiKey, call, optModel, chatVars, timer, resp, netCalls, result, streamVars>>
  /\ UNCHANGED <<extractVars, mergeVars, embedVars>>

----------------------------------------------------------------------------
(* Text of the upstream body.  A byte string is a sequence of tokens: the  *)
(* runs "data: " and "[DONE]", the JSON frame of a delta ("{" stands for    *)
(* {"choices":[{"delta":{"content":" and "}" for "}}]}, "{}" for an object  *)
(* without content), content characters, white space and the line feed.     *)
(* "c3" "a9" are the two bytes of one character outside ASCII.              *)

LF == "\n"
CR == "\r"
DataPrefix == "data: "
DoneToken == "[DONE]"
Replacement == "U+FFFD"
WideChar == "e-acute"

ContentChars == {"a", "b", WideChar, Replacement}
WhiteSpace == {" ", CR, LF}

\* decoder.decode(value, { stream: true }): bytes to characters; an
\* incomplete character at the end of the input is held back for the next call
RECURSIVE DecodeBytes(_)
DecodeBytes(bytes) ==
  IF bytes = <<>> THEN [text |-> <<>>, rest |-> <<>>]
  ELSE IF bytes[1] = "c3"
    THEN IF Len(bytes) = 1 THEN [text |-> <<>>, rest |-> bytes]
         ELSE IF bytes[2] = "a9"
           THEN LET r == DecodeBytes(SubSeq(bytes, 3, Len(bytes)))
                IN  [text |-> <<WideChar>> \o r.text, rest |-> r.rest]
           ELSE LET r == DecodeBytes(Tail(bytes))
                IN  [text |-> <<Replacement>> \o r.text, rest |-> r.rest]
  ELSE LET r == DecodeBytes(Tail(bytes))
       IN  [text |-> <<(IF bytes[1] = "a9" THEN Replacement ELSE bytes[1])>> \o r.text,
            rest |-> r.rest]

Decode(rest, value) == DecodeBytes(rest \o value)

\* text.split('\n')
RECURSIVE SplitLines(_, _)
SplitLines(text, line) ==
  IF text = <<>> THEN <<line>>
  ELSE IF text[1] = LF THEN <<line>> \o SplitLines(Tail(text), <<>>)
  ELSE SplitLines(Tail(text), Append(line, text[1]))

Split(text) == SplitLines(text, <<>>)

\* String.prototype.trim
RECURSIVE TrimLeft(_)
TrimLeft(str) ==
  IF str # <<>> /\ str[1] \in WhiteSpace THEN TrimLeft(Tail(str)) ELSE str

RECURSIVE TrimRight(_)
TrimRight(str) ==
  IF str # <<>> /\ str[Len(str)] \in WhiteSpace
    THEN TrimRight(SubSeq(str, 1, Len(str) - 1)) ELSE str

Trim(str) == TrimRight(TrimLeft(str))

\* line.startsWith('data: ')
StartsWithData(line) == line # <<>> /\ line[1] = DataPrefix

\* line.slice(6).trim()
Payload(line) == Trim(Tail(line))

\* JSON.parse(data) and parsed.choices?.[0]?.delta?.content: ok is FALSE when
\* JSON.parse throws, content is the empty string when the value is falsy
ParseDelta(data) ==
  IF data = <<"{}">> THEN [ok |-> TRUE, content |-> <<>>]
  ELSE IF /\ Len(data) >= 2
          /\ data[1] = "{"
          /\ data[Len(data)] = "}"
          /\ \A i \in 2..(Len(data) - 1) : data[i] \in ContentChars
    THEN [ok |-> TRUE, content |-> SubSeq(data, 2, Len(data) - 1)]
  ELSE [ok |-> FALSE, content |-> <<>>]

\* the events of the output stream: data: {"content": <delta>} and data: [DONE]
ContentEvent(content) == [done |-> FALSE, content |-> content]
DoneEvent == [done |-> TRUE, content |-> <<>>]

----------------------------------------------------------------------------
(* The ReadableStream returned by nvidiaChatStream.  Its controller is the *)
(* record [out, queue, closeReq, readReq, pullAgain, emitted, upEnd]; the   *)
(* operators below are the controller's methods as pull() uses them, called *)
(* while a pull is running.                                                 *)

HighWaterMark == 1

Controller ==
  [out |-> out, queue |-> queue, closeReq |-> closeReq, readReq |-> readReq,
   pullAgain |-> pullAgain, emitted |-> emitted, upEnd |-> upEnd]

CanCloseOrEnqueue(c) == ~c.closeReq /\ c.out = "readable"

\* the stream wants more data: a read is waiting or the queue is below the mark
ShouldCallPull(c) ==
  /\ CanCloseOrEnqueue(c)
  /\ (c.readReq > 0 \/ HighWaterMark - Len(c.queue) > 0)

\* controller.error(err)
ControllerError(c) ==
  IF c.out = "readable"
    THEN [c EXCEPT !.out = "errored", !.queue = <<>>, !.readReq = 0]
    ELSE c

\* controller.enqueue(event) during a pull: a waiting read takes the event,
\* otherwise it is queued; the stream then notes whether to pull again.
\* On a stream that cannot take it, enqueue throws and nothing changes.
ControllerEnqueue(c, event) ==
  IF ~CanCloseOrEnqueue(c) THEN c
  ELSE LET d == IF c.readReq > 0
                  THEN [c EXCEPT !.readReq = 0, !.emitted = Append(@, event)]
                  ELSE [c EXCEPT !.queue = Append(@, event),
                                 !.emitted = Append(@, event)]
       IN  IF ShouldCallPull(d) THEN [d EXCEPT !.pullAgain = TRUE] ELSE d

\* controller.close(): at once when the queue is empty, else when it drains
ControllerClose(c) ==
  IF ~CanCloseOrEnqueue(c) THEN c
  ELSE IF c.queue = <<>> THEN [c EXCEPT !.out = "closed", !.readReq = 0]
  ELSE [c EXCEPT !.closeReq = TRUE]

EmitDoneNoClose(c) ==
  IF CanCloseOrEnqueue(c) THEN ControllerEnqueue(c, DoneEvent) ELSE ControllerError(c)

\* controller.enqueue(encoder.encode('data: [DONE]\n\n')); controller.close();
\* on a stream that cannot take it the TypeError reaches the outer catch
EmitDone(c) ==
  IF CanCloseOrEnqueue(c)
    THEN ControllerClose(ControllerEnqueue(c, DoneEvent))
    ELSE ControllerError(c)

\* a loop body that re-frames a delta whether or not it is empty
PullLineEmitsEmpty(c, line) ==
  IF ~StartsWithData(line) THEN c
  ELSE LET parsed == ParseDelta(Payload(line))
       IN  IF parsed.ok THEN ControllerEnqueue(c, ContentEvent(parsed.content)) ELSE c

\* a loop body without the inner try: the SyntaxError reaches the outer catch
PullLineParseFatal(c, line) ==
  IF ~StartsWithData(line) THEN c
  ELSE LET parsed == ParseDelta(Payload(line))
       IN  IF ~parsed.ok THEN ControllerError(c)
           ELSE IF parsed.content # <<>>
             THEN ControllerEnqueue(c, ContentEvent(parsed.content))
             ELSE c

\* the body of the for loop for one line that is not [DONE]
PullLine(c, line) ==
  IF ~StartsWithData(line) THEN c
  ELSE LET parsed == ParseDelta(Payload(line))
       IN  IF parsed.ok /\ parsed.content # <<>>
             THEN ControllerEnqueue(c, ContentEvent(parsed.content))
             ELSE c

IsDoneLine(line) == StartsWithData(line) /\ Payload(line) = <<DoneToken>>

\* for (const line of lines) { ... }: returns at the first [DONE] line
RECURSIVE PullLines(_, _)
PullLines(c, lines) ==
  IF lines = <<>> THEN c
  ELSE IF IsDoneLine(lines[1]) THEN EmitDone([c EXCEPT !.upEnd = "DONE"])
  ELSE PullLines(PullLine(c, lines[1]), Tail(lines))

----------------------------------------------------------------------------
(* nvidiaChatStream *)

\* the most chunks the upstream delivers before it ends
MaxReads == 3

\* one SSE event: a line and the blank line after it
Event(line) == line \o <<LF, LF>>

DeltaLine(content) == <<DataPrefix, "{">> \o content \o <<"}">>
EmptyDeltaLine == <<DataPrefix, "{", "}">>
RoleOnlyLine == <<DataPrefix, "{}">>
MalformedLine == <<DataPrefix, "{", "a">>
DoneLine == <<DataPrefix, DoneToken>>

\* chunks a read of the upstream body may deliver: whole events, one or two
\* per chunk, with LF or CR LF line ends, and the two halves of an event cut
\* inside a line, between the bytes of a character
WholeLineChunks ==
  { Event(DeltaLine(<<"a">>)),
    DeltaLine(<<"b">>) \o <<CR, LF, CR, LF>>,
    Event(DeltaLine(<<"a">>)) \o Event(DeltaLine(<<"c3", "a9">>)),
    Event(RoleOnlyLine) \o Event(EmptyDeltaLine),
    Event(MalformedLine),
    Event(MalformedLine) \o Event(DeltaLine(<<"b">>)),
    Event(DoneLine),
    Event(DoneLine) \o Event(DeltaLine(<<"a">>)) }

CutChunks ==
  { <<DataPrefix, "{", "c3">>, <<"a9", "}", LF, LF>> }

UpstreamChunks == WholeLineChunks \cup CutChunks

StreamModelFirstDefault(model) == MODELS[1]

\* const currentModel = model || MODELS[0]
StreamModel(model) == IF model # "" THEN model ELSE MODELS[1]

\* the controller after a step, written back to the state
SetController(c) ==
  /\ out' = c.out
  /\ queue' = c.queue
  /\ closeReq' = c.closeReq
  /\ readReq' = c.readReq
  /\ pullAgain' = c.pullAgain
  /\ emitted' = c.emitted
  /\ upEnd' = c.upEnd

StreamCall(m) ==
  /\ pc = "idle"
  /\ call' = "stream"
  /\ optModel' = m
  /\ IF KeyMissing
       THEN /\ Throw(ConfigError)
            /\ UNCHANGED <<timer, netCalls>>
       ELSE /\ netCalls' = Append(netCalls, StreamModel(m))
            /\ timer' = TRUE
            /\ pc' = "fetch"
            /\ UNCHANGED thrown
  /\ UNCHANGED <<apiKey, chatVars, resp, result, streamVars>>
  /\ UNCHANGED <<extractVars, mergeVars, embedVars>>

\* the fetch resolves with a response; finally { clearTimeout(timer) }.
\* Not ok: read the error text.  No body: throw.  Otherwise the stream is
\* built and returned; the stream starts at once and, its queue being below
\* the high-water mark, calls pull before the caller can read.
StreamFetchResponds(status, hasBody) ==
  /\ call = "stream" /\ pc = "fetch"
  /\ timer' = FALSE
  /\ resp' = status
  /\ IF status \notin OkStatuses
       THEN pc' = "errBody" /\ UNCHANGED <<thrown, result, streamVars>>
     ELSE IF ~hasBody
       THEN Throw(NoBodyError) /\ UNCHANGED <<result, streamVars>>
     ELSE /\ pc' = "streaming"
          /\ result' = "ReadableStream"
          /\ out' = "readable"
          /\ pullPhase' = "reading"
          /\ UNCHANGED <<thrown, queue, closeReq, pullAgain, readReq, consumer,
                         upstream, upEnd, decoderRest, readerCancelled, emitted>>
  /\ UNCHANGED <<apiKey, call, optModel, chatVars, netCalls>>
  /\ UNCHANGED <<extractVars, mergeVars, embedVars>>

\* the timer fires or the transport fails: the rejection leaves the function
StreamFetchRejects(cause) ==
  /\ call = "stream" /\ pc = "fetch"
  /\ cause = AbortError => timer
  /\ timer' = FALSE
  /\ Throw(cause)
  /\ UNCHANGED <<apiKey, call, optModel, chatVars, resp, netCalls, result, streamVars>>
  /\ UNCHANGED <<extractVars, mergeVars, embedVars>>

\* const error = await response.text(); throw new Error(...)
StreamErrBody(readOk) ==
  /\ call = "stream" /\ pc = "errBody"
  /\ Throw(IF readOk THEN StreamHttpError(resp) ELSE BodyReadError)
  /\ UNCHANGED <<apiKey, call, optModel, chatVars, timer, resp, netCalls, result,
                 streamVars>>
  /\ UNCHANGED <<extractVars, mergeVars, embedVars>>

\* pull: reader.read() resolves with a chunk; decode, split, re-frame (after a
\* cancel this is a chunk that had arrived before it)
PullChunk(value) ==
  /\ pc = "streaming" /\ pullPhase = "reading"
  /\ upEnd = "open"
  /\ Len(upstream) < MaxReads
  /\ LET dec == Decode(decoderRest, value)
     IN  /\ SetController(PullLines(Controller, Split(dec.text)))
         /\ decoderRest' = dec.rest
  /\ upstream' = Append(upstream, value)
  /\ pullPhase' = "settling"
  /\ UNCHANGED <<apiKey, call, pc, optModel, chatVars, timer, resp, netCalls,
                 result, thrown, consumer, readerCancelled>>
  /\ UNCHANGED <<extractVars, mergeVars, embedVars>>

\* pull: reader.read() resolves with done (the body ended, or the reader was
\* cancelled)
PullDone ==
  /\ pc = "streaming" /\ pullPhase = "reading"
  /\ upEnd = "open"
  /\ SetController(EmitDone([Controller EXCEPT
                               !.upEnd = IF readerCancelled THEN "cancelled" ELSE "done"]))
  /\ pullPhase' = "settling"
  /\ UNCHANGED <<apiKey, call, pc, optModel, chatVars, timer, resp, netCalls,
                 result, thrown, consumer, upstream, decoderRest, readerCancelled>>
  /\ UNCHANGED <<extractVars, mergeVars, embedVars>>

\* pull: reader.read() rejects; catch (err) { controller.error(err) }
PullError ==
  /\ pc = "streaming" /\ pullPhase = "reading"
  /\ upEnd = "open" /\ ~readerCancelled
  /\ SetController(ControllerError([Controller EXCEPT !.upEnd = "error"]))
  /\ pullPhase' = "settling"
  /\ UNCHANGED <<apiKey, call, pc, optModel, chatVars, timer, resp, netCalls,
                 result, thrown, consumer, upstream, decoderRest, readerCancelled>>
  /\ UNCHANGED <<extractVars, mergeVars, embedVars>>

\* the promise pull returned is fulfilled: the stream pulls again only if it
\* was asked to while the pull ran and still wants data
PullSettle ==
  /\ pc = "streaming" /\ pullPhase = "settling"
  /\ pullPhase' = IF pullAgain /\ ShouldCallPull(Controller) THEN "reading" ELSE "idle"
  /\ pullAgain' = FALSE
  /\ UNCHANGED <<apiKey, call, pc, optModel, chatVars, timer, resp, netCalls,
                 result, thrown, out, queue, closeReq, readReq, consumer,
                 upstream, upEnd, decoderRest, readerCancelled, emitted>>
  /\ UNCHANGED <<extractVars, mergeVars, embedVars>>

\* the stream asks for data outside a pull: it calls pull, or notes the
\* request when a pull is running
CallPullIfNeeded(c) ==
  IF ShouldCallPull(c)
    THEN IF pullPhase = "idle"
           THEN pullPhase' = "reading" /\ UNCHANGED pullAgain
           ELSE pullAgain' = TRUE /\ UNCHANGED pullPhase
    ELSE UNCHANGED <<pullPhase, pullAgain>>

\* the consumer calls read() on the returned stream, one read at a time
ConsumerRead ==
  /\ pc = "streaming" /\ consumer = "reading" /\ readReq = 0
  /\ IF out = "closed"
       THEN consumer' = "done"
            /\ UNCHANGED <<out, queue, readReq, pullPhase, pullAgain>>
     ELSE IF out = "errored"
       THEN consumer' = "failed"
            /\ UNCHANGED <<out, queue, readReq, pullPhase, pullAgain>>
     ELSE IF queue # <<>>
       THEN /\ queue' = Tail(queue)
            /\ IF closeReq /\ Tail(queue) = <<>>
                 THEN out' = "closed" /\ UNCHANGED <<pullPhase, pullAgain>>
                 ELSE /\ UNCHANGED out
                      /\ CallPullIfNeeded([Controller EXCEPT !.queue = Tail(queue)])
            /\ UNCHANGED <<consumer, readReq>>
     ELSE /\ readReq' = 1
          /\ CallPullIfNeeded([Controller EXCEPT !.readReq = 1])
          /\ UNCHANGED <<consumer, out, queue>>
  /\ UNCHANGED <<apiKey, call, pc, optModel, chatVars, timer, resp, netCalls,
                 result, thrown, closeReq, upstream, upEnd, decoderRest,
                 readerCancelled, emitted>>
  /\ UNCHANGED <<extractVars, mergeVars, embedVars>>

\* a cancel() that leaves the upstream reader alone
ConsumerCancelNoRelease ==
  /\ pc = "streaming" /\ consumer = "reading" /\ out = "readable"
  /\ consumer' = "cancelled"
  /\ out' = "closed"
  /\ queue' = <<>>
  /\ readReq' = 0
  /\ UNCHANGED <<apiKey, call, pc, optModel, chatVars, timer, resp, netCalls,
                 result, thrown, closeReq, pullPhase, pullAgain, upstream, upEnd,
                 decoderRest, emitted, readerCancelled>>
  /\ UNCHANGED <<extractVars, mergeVars, embedVars>>

\* the consumer cancels the returned stream while it is readable: the stream
\* closes, drops its queue and calls cancel() { reader.cancel() }.  (On a
\* stream already closed or errored cancel() changes nothing.)
ConsumerCancel ==
  /\ pc = "streaming" /\ consumer = "reading" /\ out = "readable"
  /\ consumer' = "cancelled"
  /\ out' = "closed"
  /\ queue' = <<>>
  /\ readReq' = 0
  /\ readerCancelled' = TRUE
  /\ UNCHANGED <<apiKey, call, pc, optModel, chatVars, timer, resp, netCalls,
                 result, thrown, closeReq, pullPhase, pullAgain, upstream, upEnd,
                 decoderRest, emitted>>
  /\ UNCHANGED <<extractVars, mergeVars, embedVars>>

----------------------------------------------------------------------------

----------------------------------------------------------------------------
(* The extractors: generateSummary, extractEntitiesWithTypes and           *)
(* extractKeyPoints, each one nvidiaChat call followed by a clean-up of    *)
(* the completion text.  A text is a sequence of tokens: the fence marks,  *)
(* line feeds, blanks, prose, and JSON documents (a document is one token  *)
(* that carries its value; its strings hold no fence marks).               *)

NoDoc == [kind |-> "none", items |-> <<>>]
Tok(k) == [tok |-> k, doc |-> NoDoc]
JsonTok(d) == [tok |-> "json", doc |-> d]
FenceJson == Tok("fence-json")
Fence == Tok("fence")
NewLine == Tok(LF)
Blank == Tok(" ")
ProseTok == Tok("prose")

\* values of a property of a JSON element
JsUndefined == [t |-> "undefined", v |-> ""]
JsString(s) == [t |-> "string", v |-> s]
JsNumber(s) == [t |-> "number", v |-> s]

\* elements a JSON array can hold: null, a number, a string (neither has the
\* properties name and type), and objects
JsonNull == [kind |-> "null", name |-> JsUndefined, type |-> JsUndefined]
JsonNumber == [kind |-> "number", name |-> JsUndefined, type |-> JsUndefined]
JsonString == [kind |-> "string", name |-> JsUndefined, type |-> JsUndefined]
JsonObject(n, t) == [kind |-> "object", name |-> n, type |-> t]

NameValues ==
  {JsString("React"), JsString("Hooks"), JsString(""), JsNumber("42"), JsUndefined}
TypeValues ==
  {JsString("concept"), JsString("entity"), JsString("idea"), JsString("person"),
   JsUndefined}
Elements ==
  {JsonNull, JsonNumber, JsonString}
    \cup {JsonObject(n, t) : n \in NameValues, t \in TypeValues}

ArrayDoc(items) == [kind |-> "array", items |-> items]
ObjectDoc == [kind |-> "object", items |-> <<>>]
StringDoc == [kind |-> "string", items |-> <<>>]

\* e && e.name && typeof e.name === 'string'
JsTruthy(x) ==
  \/ x.t = "string" /\ x.v # ""
  \/ x.t = "number" /\ x.v # "0"
\* a filter that keeps every object
HasNameLoose(e) == e.kind = "object"

HasName(e) == e.kind # "null" /\ JsTruthy(e.name) /\ e.name.t = "string"

EntityTypes == {"concept", "entity", "idea"}

\* ['concept', 'entity', 'idea'].includes(e.type) ? e.type : 'entity'
TypeOf(e) ==
  IF e.type.t = "string" /\ e.type.v \in EntityTypes THEN e.type.v ELSE "entity"

TypedEntity(e) == [name |-> e.name, type |-> TypeOf(e)]

EntityCap == 20
KeyPointCap == 10

\* s.slice(0, n)
Slice(s, n) == IF Len(s) <= n THEN s ELSE SubSeq(s, 1, n)

\* parsed.filter(...)
Filter(items) == SelectSeq(items, HasName)

\* .map(...)
MapTyped(items) == [i \in 1..Len(items) |-> TypedEntity(items[i])]

\* the same three steps with the cap applied first
SliceFilterMap(items) == MapTyped(Filter(Slice(items, EntityCap)))

\* parsed.filter(...).map(...).slice(0, 20)
FilterMapSlice(items) == Slice(MapTyped(Filter(items)), EntityCap)

\* text.replace(re, '') for a fence mark with an optional line feed after it
RECURSIVE Strip(_, _)
Strip(text, mark) ==
  IF text = <<>> THEN <<>>
  ELSE IF Head(text) = mark
       THEN IF Len(text) >= 2 /\ text[2] = NewLine
            THEN Strip(SubSeq(text, 3, Len(text)), mark)
            ELSE Strip(Tail(text), mark)
       ELSE <<Head(text)>> \o Strip(Tail(text), mark)

TextSpace == {NewLine, Blank}

RECURSIVE TrimTextLeft(_)
TrimTextLeft(text) ==
  IF text # <<>> /\ Head(text) \in TextSpace THEN TrimTextLeft(Tail(text)) ELSE text

RECURSIVE TrimTextRight(_)
TrimTextRight(text) ==
  IF text # <<>> /\ text[Len(text)] \in TextSpace
  THEN TrimTextRight(SubSeq(text, 1, Len(text) - 1))
  ELSE text

\* a clean-up that leaves the fences in
CleanedKeepFences(response) == TrimTextRight(TrimTextLeft(response))

\* response.replace(<json fence>, '').replace(<fence>, '').trim()
Cleaned(response) ==
  TrimTextRight(TrimTextLeft(Strip(Strip(response, FenceJson), Fence)))

SyntaxError == "SyntaxError"
TypeError == "TypeError"

\* JSON.parse(cleaned): the text must be exactly one JSON document
JsonParse(cleaned) ==
  IF Len(cleaned) = 1 /\ cleaned[1].tok = "json"
  THEN [err |-> None, doc |-> cleaned[1].doc]
  ELSE [err |-> SyntaxError, doc |-> NoDoc]

\* what the nvidiaChat call of an extractor settles with: an error, a
\* completion text, or a completion content that is not a string
ChatThrows(e) == [err |-> e, str |-> TRUE, text |-> <<>>]
ChatText(t) == [err |-> None, str |-> TRUE, text |-> t]
ChatNonString == [err |-> None, str |-> FALSE, text |-> <<>>]

Returns(v) == [err |-> None, ret |-> v]
Throws(e) == [err |-> e, ret |-> <<>>]

\* a catch block that lets the error through
Rethrow(t) == t

\* catch { return []; }
CatchEmpty(t) == IF t.err # None THEN Returns(<<>>) ELSE t

\* the try block up to JSON.parse: the parsed document, or what was thrown
TryParse(chat) ==
  IF chat.err # None THEN [err |-> chat.err, doc |-> NoDoc]
  ELSE IF ~chat.str THEN [err |-> TypeError, doc |-> NoDoc]
  ELSE JsonParse(Cleaned(chat.text))

\* the try block of extractEntitiesWithTypes
TryEntities(chat) ==
  LET parsed == TryParse(chat) IN
    IF parsed.err # None THEN Throws(parsed.err)
    ELSE IF parsed.doc.kind = "array" THEN Returns(FilterMapSlice(parsed.doc.items))
    ELSE Returns(<<>>)

ExtractEntitiesWithTypes(chat) == CatchEmpty(TryEntities(chat))

\* key points without the cap
KeyPointsAll(items) == items

\* parsed.slice(0, 10)
KeyPointsSlice(items) == Slice(items, KeyPointCap)

\* the try block of extractKeyPoints
TryKeyPoints(chat) ==
  LET parsed == TryParse(chat) IN
    IF parsed.err # None THEN Throws(parsed.err)
    ELSE IF parsed.doc.kind = "array" THEN Returns(KeyPointsSlice(parsed.doc.items))
    ELSE Returns(<<>>)

ExtractKeyPoints(chat) == CatchEmpty(TryKeyPoints(chat))

\* generateSummary returns the completion as it is and has no try block
GenerateSummary(chat) ==
  IF chat.err # None THEN Throws(chat.err) ELSE Returns(chat.text)

Extractors == {"generateSummary", "extractEntitiesWithTypes", "extractKeyPoints"}

Extract(fn, chat) ==
  CASE fn = "generateSummary" -> GenerateSummary(chat)
    [] fn = "extractEntitiesWithTypes" -> ExtractEntitiesWithTypes(chat)
    [] fn = "extractKeyPoints" -> ExtractKeyPoints(chat)

(* Completions the extractors are run on *)

MaxExtra == 2

\* the array of n elements that repeats a pattern
Cycle(pat, n) == [i \in 1..n |-> pat[((i - 1) % Len(pat)) + 1]]

Patterns ==
  { <<JsonObject(JsString("React"), JsString("concept"))>>,
    <<JsonObject(JsString("React"), JsString("idea")), JsonNull,
      JsonObject(JsString("Hooks"), JsString("person")),
      JsonObject(JsNumber("42"), JsString("concept")),
      JsonObject(JsString("Hooks"), JsUndefined)>>,
    <<JsonString, JsonObject(JsString("Hooks"), JsString("entity"))>> }

ShortArrays ==
  {<<>>} \cup {<<e>> : e \in Elements} \cup {<<e, f>> : e, f \in Elements}
LongArrays ==
  {Cycle(pat, n) : pat \in Patterns, n \in 0..(2 * EntityCap + MaxExtra)}
Arrays == ShortArrays \cup LongArrays
NonArrayDocs == {ObjectDoc, StringDoc}

\* the forms a completion gives a document
Plain(d) == <<JsonTok(d)>>
Padded(d) == <<NewLine, JsonTok(d), Blank, NewLine>>
Fenced(d) == <<FenceJson, NewLine, JsonTok(d), NewLine, Fence>>
FencedTight(d) == <<FenceJson, JsonTok(d), Fence>>
FencedBare(d) == <<Fence, NewLine, JsonTok(d), NewLine, Fence>>
Explained(d) == <<ProseTok, NewLine, FenceJson, NewLine, JsonTok(d), NewLine, Fence>>
NotJson == <<ProseTok, NewLine, ProseTok>>

Forms(d) == {Plain(d), Padded(d), Fenced(d), FencedTight(d), FencedBare(d), Explained(d)}

Responses ==
  {NotJson} \cup UNION {Forms(ArrayDoc(a)) : a \in Arrays}
            \cup UNION {Forms(d) : d \in NonArrayDocs}

\* errors nvidiaChat rejects with when every model failed
ExhaustionErrors == {HttpError(500), EmptyResponse, AbortError, FetchFailed}

\* outcomes of the nvidiaChat call, given whether the key is configured
ChatOutcomes(key) ==
  IF ~key THEN {ChatThrows(ConfigError)}
  ELSE {ChatThrows(e) : e \in ExhaustionErrors} \cup {ChatNonString}
         \cup {ChatText(t) : t \in Responses}

\* an extractor is called and calls nvidiaChat
ExCall(fn) ==
  /\ exPc = "idle"
  /\ exPc' = "chat"
  /\ exFn' = fn
  /\ UNCHANGED <<exChat, exOut, gatewayVars, mergeVars, embedVars>>

\* the nvidiaChat call settles
ExChatSettles ==
  /\ exPc = "chat"
  /\ exPc' = "settled"
  /\ \E chat \in ChatOutcomes(apiKey) : exChat' = chat
  /\ UNCHANGED <<exFn, exOut, gatewayVars, mergeVars, embedVars>>

\* the rest of the extractor runs: it returns or throws
ExFinish ==
  /\ exPc = "settled"
  /\ exOut' = Extract(exFn, exChat)
  /\ exPc' = IF Extract(exFn, exChat).err # None THEN "thrown" ELSE "returned"
  /\ UNCHANGED <<exFn, exChat, gatewayVars, mergeVars, embedVars>>

----------------------------------------------------------------------------
(* Document ingestion: POST and PATCH of /api/ingest/document and the      *)
(* enrichment processDocumentWithAI they start, which merges the entities  *)
(* of a document into the owner's knowledge graph.  Every await on the     *)
(* store is one step.  Strengths are counted in halves (1.0 is 2).         *)

Users == {"u1", "u2"}
Titles == {"Notes", "React"}
DocIds == {1, 2}
Procs == {"p1", "p2"}

\* typed entities as extractEntitiesWithTypes returns them
Entity(n, t) == [name |-> n, type |-> t]
EntityLists ==
  { <<>>,
    <<Entity("React", "idea")>>,
    <<Entity("Hooks", "idea")>>,
    <<Entity("React", "entity"), Entity("Hooks", "idea")>>,
    <<Entity("React", "entity"), Entity("React", "concept")>> }

\* contents of an upload: length in characters, and whether it is the
\* '[File: ...' placeholder of a binary upload
DocContents ==
  {[length |-> 400, file |-> FALSE], [length |-> 12, file |-> FALSE],
   [length |-> 400, file |-> TRUE]}
MinContent == 20

\* content && content.length > 20 && !content.startsWith('[File:')
Enrichable(content) == content.length > MinContent /\ ~content.file

\* what Promise.all resolves the entity list and the key points with
KeyPoints == <<"point">>
Extractions ==
  {[typed |-> t, keyPoints |-> IF t = <<>> THEN <<>> ELSE KeyPoints] : t \in EntityLists}

\* an entity list that holds one name three times
Thrice ==
  [typed |-> <<Entity("React", "entity"), Entity("React", "concept"),
               Entity("React", "idea")>>,
   keyPoints |-> KeyPoints]

NoSummary == "<no summary>"
Summary == "summary"
NoEmbedding == "<no embedding>"
Embedding == "embedding"

StrengthNew == 2   \* 1.0
StrengthStep == 1  \* 0.5
StrengthDoc == 4   \* 2.0
TagCap == 5

NoNode ==
  [id |-> 0, userId |-> "", label |-> "", type |-> "", strength |-> 0,
   connections |-> <<>>]

IdleProc ==
  [pc |-> "idle", docId |-> 0, content |-> [length |-> 0, file |-> FALSE],
   userId |-> "", typedEntities |-> <<>>, keyPoints |-> <<>>, i |-> 0,
   existing |-> NoNode, nodes |-> <<>>, docNode |-> 0, created |-> FALSE,
   j |-> 0, overlap |-> FALSE]

MaxMerges == 2
MaxFaults == 1

Names(typed) == [k \in 1..Len(typed) |-> typed[k].name]
InList(x, s) == \E k \in 1..Len(s) : s[k] = x

\* a list that keeps its repeats
KeepAll(s) == s

\* [...new Set(s)]: the first occurrence of each element, in order
RECURSIVE Dedup(_)
Dedup(s) ==
  IF s = <<>> THEN <<>>
  ELSE LET r == Dedup(SubSeq(s, 1, Len(s) - 1)) IN
         IF InList(s[Len(s)], r) THEN r ELSE Append(r, s[Len(s)])

\* rows of the owner with one of the labels, in order of creation
FindNodes(userId, labels) ==
  SelectSeq(nodes, LAMBDA n : n.userId = userId /\ InList(n.label, labels))

\* a lookup that never finds a row
FindFirstNothing(userId, label) == {NoNode}

\* a lookup by label alone
FindFirstAnyOwner(userId, label) ==
  LET hits == {k \in 1..Len(nodes) : nodes[k].label = label}
  IN  IF hits = {} THEN {NoNode} ELSE {nodes[k] : k \in hits}

\* prisma.knowledgeNode.findFirst({ where: { userId, label } }): the rows it
\* can return (no order is given); NoNode for null
FindFirst(userId, label) ==
  LET hits == {k \in 1..Len(nodes) : nodes[k].userId = userId /\ nodes[k].label = label}
  IN  IF hits = {} THEN {NoNode} ELSE {nodes[k] : k \in hits}

\* prisma.knowledgeNode.create: the new row gets a fresh id
NewNode(userId, label, type, strength, connections) ==
  [id |-> Len(nodes) + 1, userId |-> userId, label |-> label, type |-> type,
   strength |-> strength, connections |-> connections]

Ids(rows) == [k \in 1..Len(rows) |-> rows[k].id]

DocOfId(docId) == CHOOSE d \in documents : d.id = docId

Running == {p \in Procs : proc[p].pc # "idle"}

\* the invocation is over; how is "returned", "caught" or "rejected".  The
\* log keeps whether the extractors or the store made it end, how far the
\* entity loop had come, the node rows it left and, when it returned, the
\* document node it used.
Entry(p, r, how, count) ==
  [docId |-> r.docId, content |-> r.content, userId |-> r.userId,
   typedEntities |-> r.typedEntities, how |-> how, count |-> count, by |-> p,
   cause |-> IF how = "returned" THEN "none"
             ELSE IF r.pc = "extract" THEN "summary" ELSE "store",
   i |-> r.i,
   docNode |-> IF how = "returned" THEN r.docNode ELSE 0,
   created |-> how = "returned" /\ r.created,
   overlap |-> r.overlap, after |-> nodes]

End(p, how, count) ==
  /\ proc' = [proc EXCEPT ![p] = IdleProc]
  /\ merges' = Append(merges, Entry(p, proc[p], how, count))

\* an error that escapes processDocumentWithAI
Rejected(p) == End(p, "rejected", Len(nodes))

\* catch (error) { console.error(...) }
CaughtError(p) == End(p, "caught", Len(nodes))

\* processDocumentWithAI(docId, content, userId) is started, not awaited
Start(p, docId, content, userId) ==
  proc' = [q \in Procs |->
             IF q = p
             THEN [IdleProc EXCEPT !.pc = "extract", !.docId = docId,
                                   !.content = content, !.userId = userId,
                                   !.overlap = (Running # {})]
             ELSE [proc[q] EXCEPT !.overlap = (@ \/ q \in Running)]]

Started == Len(merges) + Cardinality(Running)
Faults == Cardinality({k \in 1..Len(merges) : merges[k].how # "returned"})

\* POST: the document row is created, then the enrichment is started when
\* the content is worth it
Post(p, userId, title, content) ==
  /\ proc[p].pc = "idle"
  /\ LET id == Cardinality(documents) + 1 IN
       /\ id \in DocIds
       /\ documents' = documents \cup
            {[id |-> id, userId |-> userId, title |-> title, content |-> content,
              summary |-> NoSummary, entities |-> <<>>, keyPoints |-> <<>>,
              tags |-> <<>>, embedding |-> NoEmbedding]}
       /\ IF Enrichable(content) /\ Started < MaxMerges
          THEN Start(p, id, content, userId)
          ELSE /\ ~Enrichable(content)
               /\ UNCHANGED proc
  /\ UNCHANGED <<nodes, merges, gatewayVars, extractVars, embedVars>>

\* PATCH ?id=docId: the enrichment is started again for a document of the
\* session's user
Patch(p, userId, docId) ==
  /\ Started < MaxMerges
  /\ proc[p].pc = "idle"
  /\ \E doc \in documents :
       /\ doc.id = docId /\ doc.userId = userId
       /\ Enrichable(doc.content)
       /\ Start(p, docId, doc.content, userId)
  /\ UNCHANGED <<documents, nodes, merges, gatewayVars, extractVars, embedVars>>

\* Promise.all of the three extractors settles: generateSummary may have
\* thrown (the whole invocation then ends in its catch block), the other two
\* are fail-soft
Extracted(p, summaryOk, typed, keyPoints) ==
  /\ proc[p].pc = "extract"
  /\ IF summaryOk
     THEN /\ proc' = [proc EXCEPT ![p].pc = "docUpdate", ![p].typedEntities = typed,
                                  ![p].keyPoints = keyPoints]
          /\ UNCHANGED merges
     ELSE /\ Faults < MaxFaults
          /\ proc' = [proc EXCEPT ![p] = IdleProc]
          /\ merges' = Append(merges,
               Entry(p, [proc[p] EXCEPT !.typedEntities = typed], "caught", Len(nodes)))
  /\ UNCHANGED <<documents, nodes, gatewayVars, extractVars, embedVars>>

\* an update that also stores the text the extractors were given
WithContent(doc, names, keyPoints) ==
  [doc EXCEPT !.summary = Summary, !.entities = names, !.keyPoints = keyPoints,
              !.tags = Slice(names, TagCap), !.embedding = Embedding,
              !.content = [length |-> MinContent, file |-> FALSE]]

\* data: { summary, entities, keyPoints, tags, embedding }
Enriched(doc, names, keyPoints) ==
  [doc EXCEPT !.summary = Summary, !.entities = names, !.keyPoints = keyPoints,
              !.tags = Slice(names, TagCap), !.embedding = Embedding]

\* prisma.document.update: the AI fields of the row are written
DocUpdate(p) ==
  /\ proc[p].pc = "docUpdate"
  /\ LET doc == DocOfId(proc[p].docId) IN
       documents' = (documents \ {doc}) \cup
         {Enriched(doc, Names(proc[p].typedEntities), proc[p].keyPoints)}
  /\ proc' = [proc EXCEPT ![p].pc = "entities", ![p].i = 1]
  /\ UNCHANGED <<nodes, merges, gatewayVars, extractVars, embedVars>>

\* for (const typedEntity of typedEntities): findFirst by owner and label
FindNode(p) ==
  /\ proc[p].pc = "entities"
  /\ proc[p].i <= Len(proc[p].typedEntities)
  /\ \E row \in FindFirst(proc[p].userId, proc[p].typedEntities[proc[p].i].name) :
       proc' = [proc EXCEPT ![p].pc = "writeNode", ![p].existing = row]
  /\ UNCHANGED <<documents, nodes, merges, gatewayVars, extractVars, embedVars>>

\* a strength that starts over
StrengthReset(existing) == StrengthNew

\* a strength raised by two steps
StrengthTwice(existing) == existing.strength + 2 * StrengthStep

\* existing.strength + 0.5
NewStrength(existing) == existing.strength + StrengthStep

\* a type that follows every new observation
UpgradesAlways(existing, typedEntity) == typedEntity.type # existing.type

\* if (existing.type === 'entity' && typedEntity.type !== 'entity')
Upgrades(existing, typedEntity) ==
  existing.type = "entity" /\ typedEntity.type # "entity"

\* the row with the given id is replaced
UpdateNode(id, row) == nodes' = [nodes EXCEPT ![id] = row]

\* the create or the update that follows the findFirst
WriteNode(p) ==
  /\ proc[p].pc = "writeNode"
  /\ LET typedEntity == proc[p].typedEntities[proc[p].i]
         existing == proc[p].existing
     IN  IF existing = NoNode
         THEN nodes' = Append(nodes, NewNode(proc[p].userId, typedEntity.name,
                                             typedEntity.type, StrengthNew, <<>>))
         ELSE UpdateNode(existing.id,
                [nodes[existing.id] EXCEPT !.strength = NewStrength(existing),
                                           !.type = IF Upgrades(existing, typedEntity)
                                                    THEN typedEntity.type ELSE @])
  /\ proc' = [proc EXCEPT ![p].pc = "entities", ![p].i = @ + 1, ![p].existing = NoNode]
  /\ UNCHANGED <<documents, merges, gatewayVars, extractVars, embedVars>>

\* findMany of the owner's rows labelled with one of the entity names
FindMany(p) ==
  /\ proc[p].pc = "entities"
  /\ proc[p].i > Len(proc[p].typedEntities)
  /\ proc' = [proc EXCEPT ![p].pc = "findDocNode",
                          ![p].nodes = FindNodes(proc[p].userId,
                                                 Names(proc[p].typedEntities))]
  /\ UNCHANGED <<documents, nodes, merges, gatewayVars, extractVars, embedVars>>

\* the title of the document is read and the node labelled with it is
\* looked up (titles never change, so the two reads are one step)
FindDocNode(p) ==
  /\ proc[p].pc = "findDocNode"
  /\ \E row \in FindFirst(proc[p].userId, DocOfId(proc[p].docId).title) :
       proc' = [proc EXCEPT ![p].pc = IF row = NoNode THEN "createDocNode" ELSE "connect",
                            ![p].docNode = row.id, ![p].j = 1]
  /\ UNCHANGED <<documents, nodes, merges, gatewayVars, extractVars, embedVars>>

\* if (!docNode): the document node is created
CreateDocNode(p) ==
  /\ proc[p].pc = "createDocNode"
  /\ nodes' = Append(nodes, NewNode(proc[p].userId, DocOfId(proc[p].docId).title,
                                    "document", StrengthDoc, Ids(proc[p].nodes)))
  /\ proc' = [proc EXCEPT ![p].pc = "connect", ![p].docNode = Len(nodes) + 1,
                          ![p].created = TRUE]
  /\ UNCHANGED <<documents, merges, gatewayVars, extractVars, embedVars>>

\* connections that forget the stored ones
ConnectionsReplaced(node, found, docNodeId) ==
  Dedup(Ids(SelectSeq(found, LAMBDA n : n.id # node.id)) \o <<docNodeId>>)

\* [...new Set([...existingConnections, ...otherNodeIds, docNode.id])]
NewConnections(node, found, docNodeId) ==
  Dedup(node.connections \o Ids(SelectSeq(found, LAMBDA n : n.id # node.id))
                         \o <<docNodeId>>)

\* for (const node of nodes): the connections of the row are rewritten
Connect(p) ==
  /\ proc[p].pc = "connect"
  /\ proc[p].j <= Len(proc[p].nodes)
  /\ LET node == proc[p].nodes[proc[p].j] IN
       UpdateNode(node.id,
         [nodes[node.id] EXCEPT
            !.connections = NewConnections(node, proc[p].nodes, proc[p].docNode)])
  /\ proc' = [proc EXCEPT ![p].j = @ + 1]
  /\ UNCHANGED <<documents, merges, gatewayVars, extractVars, embedVars>>

\* the loop is over and processDocumentWithAI returns
MergeDone(p) ==
  /\ proc[p].pc = "connect"
  /\ proc[p].j > Len(proc[p].nodes)
  /\ End(p, "returned", Len(nodes))
  /\ UNCHANGED <<documents, nodes, gatewayVars, extractVars, embedVars>>

\* the store call the invocation is waiting on rejects
StoreFails(p) ==
  /\ \/ proc[p].pc \in {"docUpdate", "writeNode", "findDocNode", "createDocNode"}
     \/ proc[p].pc = "entities"
     \/ proc[p].pc = "connect" /\ proc[p].j <= Len(proc[p].nodes)
  /\ Faults < MaxFaults
  /\ CaughtError(p)
  /\ UNCHANGED <<documents, nodes, gatewayVars, extractVars, embedVars>>

----------------------------------------------------------------------------
(* generateEmbeddingSimple *)

Dim == 128
MaxText == 4

\* character codes of the texts: space, line feed, 'a' and 'B'
Chars == {32, 10, 97, 66}

RECURSIVE TextsOfLen(_)
TextsOfLen(n) ==
  IF n = 0 THEN {<<>>}
  ELSE {Append(t, c) : t \in TextsOfLen(n - 1), c \in Chars}

Texts == UNION {TextsOfLen(n) : n \in 0..MaxText}

\* \s of a regular expression, for the codes below 128
IsSpace(c) == c \in {9, 10, 11, 12, 13, 32}

\* toLowerCase, for the codes below 128
ToLowerCase(c) == IF c >= 65 /\ c <= 90 THEN c + 32 ELSE c

\* t.split(/\s+/): the pieces between the runs of white space; a run at the
\* start or at the end of the text gives an empty piece, the empty text one
\* empty piece
RECURSIVE SplitWords(_)
SplitWords(t) ==
  IF t = <<>> THEN << <<>> >>
  ELSE LET n == Len(t)
           words == SplitWords(SubSeq(t, 1, n - 1))
       IN  IF IsSpace(t[n])
           THEN IF n > 1 /\ IsSpace(t[n - 1]) THEN words ELSE Append(words, <<>>)
           ELSE [words EXCEPT ![Len(words)] = Append(@, t[n])]

\* (word.charCodeAt(i) * (i + 1) * 7) % dim, i counted from 0
Idx(word, i) == (word[i + 1] * (i + 1) * 7) % Dim

\* embedding[idx] += 1 for every character of every word; component d of
\* the vector is element d + 1 of the sequence
Counts(words) ==
  [e \in 1..Dim |->
     Cardinality({<<w, i>> \in (1..Len(words)) \X (0..(MaxText + 1)) :
                    i < Len(words[w]) /\ Idx(words[w], i) = e - 1})]

\* embedding.reduce((sum, val) => sum + val * val, 0), here for the
\* components lo..hi, added up by halves
RECURSIVE SumSquares(_, _, _)
SumSquares(v, lo, hi) ==
  IF lo > hi THEN 0
  ELSE IF lo = hi THEN v[lo] * v[lo]
  ELSE LET mid == (lo + hi) \div 2
       IN  SumSquares(v, lo, mid) + SumSquares(v, mid + 1, hi)

\* a number v / sqrt(n2); Number(v, 1) is v itself
Number(v, n2) == [num |-> v, over |-> n2]

\* a vector that is divided by its norm whatever the norm is
AlwaysDivided(v, n2) == [e \in 1..Len(v) |-> Number(v[e], n2)]

\* norm > 0 ? embedding.map((v) => v / norm) : embedding, n2 the square of
\* the norm
Normalised(v, n2) ==
  IF n2 > 0 THEN [e \in 1..Len(v) |-> Number(v[e], n2)]
  ELSE [e \in 1..Len(v) |-> Number(v[e], 1)]

GenerateEmbeddingSimple(t) ==
  LET words == SplitWords([k \in 1..Len(t) |-> ToLowerCase(t[k])])
      counts == Counts(words)
  IN  Normalised(counts, SumSquares(counts, 1, Dim))

\* one call of generateEmbeddingSimple
EmbedCall ==
  /\ emPc = "idle"
  /\ \E t \in Texts :
       /\ emText' = t
       /\ emOut' = GenerateEmbeddingSimple(t)
  /\ emPc' = "returned"
  /\ UNCHANGED <<gatewayVars, extractVars, mergeVars>>

----------------------------------------------------------------------------
(* Specifications *)

Init ==
  /\ apiKey \in BOOLEAN
  /\ call = "none"
  /\ pc = "idle"
  /\ optModel = ""
  /\ modelsToTry = <<>>
  /\ idx = 0
  /\ lastError = Null
  /\ timer = FALSE
  /\ resp = 0
  /\ netCalls = <<>>
  /\ attempts = <<>>
  /\ result = None
  /\ thrown = None
  /\ out = "none"
  /\ queue = <<>>
  /\ closeReq = FALSE
  /\ pullPhase = "idle"
  /\ pullAgain = FALSE
  /\ readReq = 0
  /\ consumer = "reading"
  /\ upstream = <<>>
  /\ upEnd = "open"
  /\ decoderRest = <<>>
  /\ readerCancelled = FALSE
  /\ emitted = <<>>
  /\ exPc = "idle"
  /\ exFn = "none"
  /\ exChat = ChatText(<<>>)
  /\ exOut = Returns(<<>>)
  /\ documents = {}
  /\ nodes = <<>>
  /\ proc = [p \in Procs |-> IdleProc]
  /\ merges = <<>>
  /\ emPc = "idle"
  /\ emText = <<>>
  /\ emOut = <<>>

Next ==
  \/ \E m \in CallerModels : ChatCall(m)
  \/ ChatFetch
  \/ \E s \in OkStatuses \cup FailStatuses : ChatFetchResponds(s)
  \/ \E c \in {AbortError, FetchFailed} : ChatFetchRejects(c)
  \/ \E ok \in BOOLEAN : ChatErrBody(ok)
  \/ \E p \in BOOLEAN, c \in Contents : ChatOkBody(p, c)
  \/ ChatExhausted
  \/ \E m \in CallerModels : StreamCall(m)
  \/ \E s \in OkStatuses \cup FailStatuses, b \in BOOLEAN : StreamFetchResponds(s, b)
  \/ \E c \in {AbortError, FetchFailed} : StreamFetchRejects(c)
  \/ \E ok \in BOOLEAN : StreamErrBody(ok)
  \/ \E v \in UpstreamChunks : PullChunk(v)
  \/ PullDone
  \/ PullError
  \/ PullSettle
  \/ ConsumerRead
  \/ ConsumerCancel

Spec == Init /\ [][Next]_vars

\* one nvidiaChat call; the steps after the call are always taken in the
\* end: the runtime resumes the function when the promise it awaits settles,
\* and every network call settles (response, transport error or timeout,
\* then the body read)
ChatStep ==
  \/ ChatFetch
  \/ \E s \in OkStatuses \cup FailStatuses : ChatFetchResponds(s)
  \/ \E c \in {AbortError, FetchFailed} : ChatFetchRejects(c)
  \/ \E ok \in BOOLEAN : ChatErrBody(ok)
  \/ \E p \in BOOLEAN, c \in Contents : ChatOkBody(p, c)
  \/ ChatExhausted

ChatNext ==
  \/ \E m \in CallerModels : ChatCall(m)
  \/ ChatStep

ChatLiveSpec == Init /\ [][ChatNext]_vars /\ WF_vars(ChatStep)

\* one extractor call
ExtractNext ==
  \/ \E fn \in Extractors : ExCall(fn)
  \/ ExChatSettles
  \/ ExFinish

ExtractSpec == Init /\ [][ExtractNext]_vars

\* ingestion requests of one user that arrive one after the other: a request
\* is served when no enrichment is running
SeqNext ==
  \/ \E t \in Titles, c \in DocContents : Running = {} /\ Post("p1", "u1", t, c)
  \/ \E d \in DocIds : Running = {} /\ Patch("p1", "u1", d)
  \/ \E ok \in BOOLEAN, x \in Extractions : Extracted("p1", ok, x.typed, x.keyPoints)
  \/ DocUpdate("p1")
  \/ FindNode("p1")
  \/ WriteNode("p1")
  \/ FindMany("p1")
  \/ FindDocNode("p1")
  \/ CreateDocNode("p1")
  \/ Connect("p1")
  \/ MergeDone("p1")
  \/ StoreFails("p1")

SeqSpec == Init /\ [][SeqNext]_vars

\* uploads of two users served as they arrive: the enrichment of an upload
\* is started without being awaited, so the store calls of two enrichments
\* interleave.  A new enrichment runs as the first task that is free.
FirstIdle == IF proc["p1"].pc = "idle" THEN "p1" ELSE "p2"

ConcNext ==
  \/ \E u \in Users, t \in Titles, c \in DocContents : Post(FirstIdle, u, t, c)
  \/ \E p \in Procs, x \in Extractions \cup {Thrice} :
       Extracted(p, TRUE, x.typed, x.keyPoints)
  \/ \E p \in Procs : DocUpdate(p)
  \/ \E p \in Procs : FindNode(p)
  \/ \E p \in Procs : WriteNode(p)
  \/ \E p \in Procs : FindMany(p)
  \/ \E p \in Procs : FindDocNode(p)
  \/ \E p \in Procs : CreateDocNode(p)
  \/ \E p \in Procs : Connect(p)
  \/ \E p \in Procs : MergeDone(p)

ConcSpec == Init /\ [][ConcNext]_vars

\* one call of generateEmbeddingSimple
EmbedNext == EmbedCall

EmbedSpec == Init /\ [][EmbedNext]_vars

----------------------------------------------------------------------------
(* Properties of nvidiaChat *)

Last(seq) == seq[Len(seq)]

ChatRaised == call = "chat" /\ apiKey /\ pc = "thrown"

AttemptFailed(i) == attempts[i].outcome # "ok"

\* C1: with the credential configured, nvidiaChat raises only after every
\* candidate of its list has been attempted, in order, and has failed; it
\* never raises while an untried candidate remains.
C1_RaisesOnlyAfterAllFailed ==
  ChatRaised =>
    /\ Len(attempts) = Len(modelsToTry)
    /\ netCalls = modelsToTry
    /\ \A i \in 1..Len(attempts) :
         attempts[i].model = modelsToTry[i] /\ AttemptFailed(i)

\* C1 witness: the call with an explicit model raised after four failures.
C1_Witness ==
  ChatRaised /\ optModel = "custom/model" /\ Len(attempts) = 4

\* C2: candidates are attempted strictly in list order (the explicit model
\* first if given, then MODELS; with no explicit model exactly MODELS),
\* candidate k+1 only after candidate k failed, and the call returns the
\* content of the first candidate with a non-empty completion without
\* attempting a later one.
C2_OrderedFallback ==
  (call = "chat" /\ apiKey) =>
    /\ modelsToTry = (IF optModel = "" THEN <<>> ELSE <<optModel>>)
                       \o <<MODELS[1], MODELS[2], MODELS[3]>>
    /\ Len(netCalls) <= Len(modelsToTry)
    /\ \A k \in 1..Len(netCalls) : netCalls[k] = modelsToTry[k]
    /\ Len(netCalls) \in {Len(attempts), Len(attempts) + 1}
    /\ \A k \in 1..Len(attempts) :
         k < Len(netCalls) => AttemptFailed(k)
    /\ pc = "returned" =>
         /\ Len(netCalls) = Len(attempts)
         /\ ~AttemptFailed(Len(attempts))
         /\ result = Last(attempts).content
         /\ ~Falsy(result)
    /\ (Len(attempts) > 0 /\ ~AttemptFailed(Len(attempts))) => pc = "returned"

\* C2 witness: the third candidate of a call with an explicit model returned
\* the completion after two failures.
C2_Witness ==
  /\ call = "chat" /\ pc = "returned" /\ optModel = "custom/model"
  /\ Len(attempts) = 3 /\ result = "Hi"
  /\ netCalls = <<"custom/model", MODELS[1], MODELS[2]>>

FailureKinds ==
  {HttpError(429), HttpError(500), AbortError, FetchFailed, EmptyResponse,
   BodyReadError, JsonError}

\* C3: a non-2xx response, a timeout, a transport error or an empty
\* completion on candidate k is only that candidate's failure: the step that
\* records it moves the loop to candidate k+1 and raises nothing, the same
\* for a timeout as for a transport error.
C3_FailureAdvances ==
  [][ (call = "chat" /\ Len(attempts') = Len(attempts) + 1
         /\ Last(attempts').outcome \in FailureKinds)
      => /\ pc' = "loop"
         /\ idx' = idx + 1
         /\ thrown' = None /\ result' = None
         /\ ~timer'
         /\ lastError' = Last(attempts').outcome ]_vars

\* C3 witness: the four kinds of failure happened on four candidates in one
\* call, the timeout first, and the loop went on after each.
C3_Witness ==
  /\ call = "chat" /\ pc = "loop" /\ Len(attempts) = 4
  /\ attempts[1].outcome = AbortError
  /\ attempts[2].outcome = FetchFailed
  /\ attempts[3].outcome = HttpError(500)
  /\ attempts[4].outcome = EmptyResponse

\* C4: when every candidate fails, the error raised is the failure cause of
\* the last candidate attempted, whatever the kinds of the failures.
C4_RaisesLastCause ==
  ChatRaised =>
    /\ attempts # <<>>
    /\ thrown = Last(attempts).outcome
    /\ Last(attempts).model = Last(modelsToTry)

\* C4 witness: all candidates failed, the first and the last differently.
C4_Witness ==
  /\ ChatRaised /\ Len(attempts) = 3
  /\ attempts[1].outcome = HttpError(429)
  /\ attempts[3].outcome = AbortError
  /\ thrown = AbortError

\* C5: with the credential missing, nvidiaChat and nvidiaChatStream fail at
\* once with the configuration error: no network call is issued, no timer is
\* armed and no candidate is attempted.
C5_MissingKeyFailsAtOnce ==
  (~apiKey /\ call # "none") =>
    /\ pc = "thrown"
    /\ thrown = ConfigError
    /\ netCalls = <<>>
    /\ attempts = <<>>
    /\ ~timer
    /\ out = "none"

\* C5 witness: a streaming call without the credential has failed.
C5_Witness == ~apiKey /\ call = "stream" /\ pc = "thrown"

----------------------------------------------------------------------------
(* Properties of nvidiaChatStream *)

StreamFailures ==
  {AbortError, FetchFailed, NoBodyError, BodyReadError,
   StreamHttpError(429), StreamHttpError(500)}

\* C6: nvidiaChatStream issues exactly one network call, to the explicit
\* model if given and otherwise to the first default model; a failure of
\* that call (non-2xx, timeout, transport error, missing body) is raised to
\* the caller, no stream is returned and no other model is tried.
C6_StreamSingleCall ==
  (call = "stream" /\ apiKey) =>
    /\ netCalls = << IF optModel = "" THEN MODELS[1] ELSE optModel >>
    /\ attempts = <<>>
    /\ resp \in FailStatuses => pc \in {"errBody", "thrown"}
    /\ pc = "thrown" =>
         /\ thrown \in StreamFailures
         /\ resp \in FailStatuses => thrown \in {StreamHttpError(resp), BodyReadError}
         /\ result = None /\ out = "none"
    /\ pc = "streaming" => resp \in OkStatuses /\ thrown = None

\* C6 witness: the call to the explicit model was answered 500 and raised.
C6_Witness ==
  /\ call = "stream" /\ pc = "thrown" /\ optModel = "custom/model"
  /\ thrown = StreamHttpError(500)
  /\ netCalls = <<"custom/model">>

\* the upstream body as read so far, as one byte string and as its lines
RECURSIVE Concat(_)
Concat(chunks) == IF chunks = <<>> THEN <<>> ELSE chunks[1] \o Concat(Tail(chunks))

UpstreamLines == Split(DecodeBytes(Concat(upstream)).text)

\* every read delivered whole lines
WholeLines == \A i \in 1..Len(upstream) : Last(upstream[i]) = LF

\* a data: line that carries a non-empty delta
CarriesDelta(line) ==
  /\ StartsWithData(line)
  /\ ParseDelta(Payload(line)).ok
  /\ ParseDelta(Payload(line)).content # <<>>

\* a data: line whose payload is neither [DONE] nor valid JSON
IsMalformed(line) ==
  StartsWithData(line) /\ ~IsDoneLine(line) /\ ~ParseDelta(Payload(line)).ok

\* the lines before the upstream end: all of them, or those before the first
\* [DONE] line
RECURSIVE BeforeEnd(_)
BeforeEnd(lines) ==
  IF lines = <<>> \/ IsDoneLine(lines[1]) THEN <<>>
  ELSE <<lines[1]>> \o BeforeEnd(Tail(lines))

\* one content event per line of lines that carries a delta, in order
RECURSIVE Reframed(_)
Reframed(lines) ==
  IF lines = <<>> THEN <<>>
  ELSE (IF CarriesDelta(lines[1])
          THEN <<ContentEvent(ParseDelta(Payload(lines[1])).content)>>
          ELSE <<>>) \o Reframed(Tail(lines))

IsContent(event) == ~event.done
IsDone(event) == event.done

ContentEvents == SelectSeq(emitted, IsContent)
DoneCount == Len(SelectSeq(emitted, IsDone))

\* the consumer did not cancel, so what is enqueued is the output
Uncancelled == pc = "streaming" /\ consumer # "cancelled"

\* the gateway saw the upstream end without a read error
UpstreamEnded == upEnd \in {"done", "DONE"}

\* C7: when every upstream read delivers whole lines, the content events of
\* the output are exactly one re-framed event for each data: line read that
\* carries a non-empty delta and precedes the upstream end, in upstream order.
C7_ReframesEachDelta ==
  (Uncancelled /\ WholeLines) =>
    ContentEvents = Reframed(BeforeEnd(UpstreamLines))

\* C7 witness: three reads of whole lines, the second without output; three
\* deltas are re-framed, one of them the character outside ASCII.
C7_Witness ==
  /\ Uncancelled /\ WholeLines /\ Len(upstream) = 3
  /\ upstream[2] = Event(RoleOnlyLine) \o Event(EmptyDeltaLine)
  /\ ContentEvents = <<ContentEvent(<<"a">>), ContentEvent(<<WideChar>>),
                       ContentEvent(<<"b">>)>>

\* C8: on a run whose upstream ended without a read error ([DONE] or
\* exhaustion) the [DONE] sentinel is emitted exactly once, is the last
\* event and closes the output; at no time is anything enqueued after it,
\* lines after [DONE] in the same chunk included.
C8_DoneOnceAndLast ==
  pc = "streaming" =>
    /\ DoneCount <= 1
    /\ DoneCount = 1 => IsDone(Last(emitted)) /\ (out = "closed" \/ closeReq)
    /\ (Uncancelled /\ UpstreamEnded) =>
         DoneCount = 1 /\ out # "errored"

\* C8 witness: [DONE] arrived in one chunk with a delta line after it, and
\* the output ends a, [DONE].
C8_Witness ==
  /\ Uncancelled /\ upEnd = "DONE"
  /\ Last(upstream) = Event(DoneLine) \o Event(DeltaLine(<<"a">>))
  /\ emitted = <<ContentEvent(<<"a">>), DoneEvent>>
  /\ consumer = "done"

\* every read delivered well-formed SSE events, whole
WholeEvents == \A i \in 1..Len(upstream) : upstream[i] \in WholeLineChunks

StreamProgress ==
  \/ \E v \in UpstreamChunks : PullChunk(v)
  \/ PullDone
  \/ PullError
  \/ PullSettle
  \/ ConsumerRead

\* C9: a consumer that keeps reading gets [DONE] and the end of the stream
\* once the upstream ends, also when chunks produce no event: as long as the
\* output is open and the consumer has not left, a step of the gateway or of
\* the consumer is possible (here with every read delivering whole events).
C9_ProgressUntilDone ==
  (pc = "streaming" /\ out = "readable" /\ consumer = "reading" /\ WholeEvents)
    => ENABLED StreamProgress

\* C10: a data: line that is not valid JSON neither errors nor closes the
\* output: the well-formed lines before and after it are re-framed, and the
\* output ends with [DONE] when the upstream ends.
C10_MalformedDropped ==
  (Uncancelled /\ WholeLines
     /\ \E i \in DOMAIN BeforeEnd(UpstreamLines) : IsMalformed(BeforeEnd(UpstreamLines)[i]))
  => /\ upEnd # "error" => out # "errored"
     /\ upEnd = "open" => out = "readable" /\ ~closeReq /\ DoneCount = 0
     /\ ContentEvents = Reframed(BeforeEnd(UpstreamLines))
     /\ UpstreamEnded => IsDone(Last(emitted)) /\ (out = "closed" \/ closeReq)

\* C10 witness: a delta, then a malformed line and a delta in one chunk,
\* then [DONE]: the output is a, b, [DONE] and the consumer saw its end.
C10_Witness ==
  /\ Uncancelled
  /\ upstream = << Event(DeltaLine(<<"a">>)),
                   Event(MalformedLine) \o Event(DeltaLine(<<"b">>)),
                   Event(DoneLine) >>
  /\ emitted = <<ContentEvent(<<"a">>), ContentEvent(<<"b">>), DoneEvent>>
  /\ out = "closed" /\ consumer = "done"

\* C11: whenever the consumer cancels the output stream, the upstream
\* reader is cancelled: in no state is the output cancelled with the upstream
\* reader not cancelled, and the cancelled output holds nothing to deliver.
C11_CancelReleasesReader ==
  (pc = "streaming" /\ consumer = "cancelled") =>
    /\ readerCancelled
    /\ out = "closed" /\ queue = <<>> /\ readReq = 0

\* C11 witness: the consumer cancelled while pull was waiting on the upstream
\* read; the read ended as done and the pull settled.
C11_Witness ==
  /\ pc = "streaming" /\ consumer = "cancelled" /\ readerCancelled
  /\ upEnd = "cancelled" /\ pullPhase = "idle"
  /\ emitted = <<ContentEvent(<<"a">>)>>

----------------------------------------------------------------------------
(* Claims about the extractors *)

\* the JSON document a completion text carries
TextDoc(text) ==
  LET js == SelectSeq(text, LAMBDA t : t.tok = "json")
  IN  IF js = <<>> THEN NoDoc ELSE js[1].doc

\* the completion is a JSON document alone, with or without fences around it
BareForms(d) == {Plain(d), Padded(d), Fenced(d), FencedTight(d), FencedBare(d)}
IsArrayResponse(chat) ==
  /\ chat.err = None /\ chat.str
  /\ TextDoc(chat.text).kind = "array"
  /\ chat.text \in BareForms(TextDoc(chat.text))
IsFailedOrNoArray(chat) ==
  \/ chat.err # None
  \/ ~chat.str
  \/ TextDoc(chat.text).kind # "array"
  \/ chat.text \notin BareForms(TextDoc(chat.text))

ExEnded(fn) == exFn = fn /\ exPc \in {"returned", "thrown"}

\* C12: extractEntitiesWithTypes never throws; whenever the gateway call
\* fails or the completion is not a JSON array it returns the empty list.
C12_EntitiesNeverThrow ==
  ExEnded("extractEntitiesWithTypes") =>
    /\ exPc = "returned" /\ exOut.err = None
    /\ IsFailedOrNoArray(exChat) => exOut.ret = <<>>

\* C12 witness: all models failed with a timeout and the extractor returned
\* the empty list.
C12_Witness ==
  /\ ExEnded("extractEntitiesWithTypes") /\ exChat = ChatThrows(AbortError)
  /\ exPc = "returned" /\ exOut.ret = <<>>

\* C13: every element extractEntitiesWithTypes returns has a non-empty text
\* name and a type among concept, entity, idea.
C13_ReturnsTypedEntities ==
  ExEnded("extractEntitiesWithTypes") =>
    \A i \in 1..Len(exOut.ret) :
      /\ exOut.ret[i].name.t = "string" /\ exOut.ret[i].name.v # ""
      /\ exOut.ret[i].type \in EntityTypes

\* C13 witness: of an object with a number as name and an object with an
\* unknown type, the second is returned, as an entity.
C13_Witness ==
  /\ ExEnded("extractEntitiesWithTypes")
  /\ exChat = ChatText(Plain(ArrayDoc(
       <<JsonObject(JsNumber("42"), JsString("concept")),
         JsonObject(JsString("React"), JsString("person"))>>)))
  /\ exOut.ret = <<[name |-> JsString("React"), type |-> "entity"]>>

\* the first n entries with a text name, in order, typed
RECURSIVE FirstValid(_, _)
FirstValid(items, n) ==
  IF n = 0 \/ items = <<>> THEN <<>>
  ELSE LET e == Head(items) IN
    IF e.kind = "object" /\ e.name.t = "string" /\ e.name.v # ""
    THEN <<[name |-> e.name,
            type |-> IF e.type \in {JsString(t) : t \in EntityTypes}
                     THEN e.type.v ELSE "entity"]>>
           \o FirstValid(Tail(items), n - 1)
    ELSE FirstValid(Tail(items), n)

\* C14: on a completion that parses to an array, extractEntitiesWithTypes
\* returns the first 20 entries with a valid name, in the order of the array,
\* each with its type when valid and entity otherwise.
C14_FirstTwentyValid ==
  (ExEnded("extractEntitiesWithTypes") /\ IsArrayResponse(exChat)) =>
    /\ exOut.ret = FirstValid(TextDoc(exChat.text).items, EntityCap)
    /\ Len(exOut.ret) <= EntityCap

\* C14 witness: an array of 42 elements with invalid entries among more than
\* 20 valid ones; 20 are returned.
C14_Witness ==
  /\ ExEnded("extractEntitiesWithTypes") /\ IsArrayResponse(exChat)
  /\ Len(TextDoc(exChat.text).items) = 2 * EntityCap + MaxExtra
  /\ TextDoc(exChat.text).items[2] = JsonNull
  /\ Len(exOut.ret) = EntityCap
  /\ exOut.ret[2].name = JsString("Hooks")

\* C15: a JSON array wrapped in a json fence gives the same list as the array
\* alone.
C15_FenceMakesNoDifference ==
  (/\ ExEnded("extractEntitiesWithTypes") /\ exChat.err = None /\ exChat.str
   /\ TextDoc(exChat.text).kind = "array"
   /\ exChat.text \in {Fenced(TextDoc(exChat.text)), FencedTight(TextDoc(exChat.text))})
    => exOut = ExtractEntitiesWithTypes(ChatText(Plain(TextDoc(exChat.text))))

\* C15 witness: a fenced array of two entries, both returned.
C15_Witness ==
  /\ ExEnded("extractEntitiesWithTypes")
  /\ exChat = ChatText(Fenced(ArrayDoc(
       <<JsonObject(JsString("React"), JsString("concept")),
         JsonObject(JsString("Hooks"), JsString("idea"))>>)))
  /\ Len(exOut.ret) = 2

\* C16: extractKeyPoints never throws and returns at most 10 entries: the
\* first 10 elements of the parsed array in order, and the empty list when
\* the gateway call fails or the completion is not a JSON array.
C16_KeyPointsCapped ==
  ExEnded("extractKeyPoints") =>
    /\ exPc = "returned" /\ exOut.err = None
    /\ Len(exOut.ret) <= KeyPointCap
    /\ IsFailedOrNoArray(exChat) => exOut.ret = <<>>
    /\ IsArrayResponse(exChat) =>
         LET a == TextDoc(exChat.text).items IN
           /\ Len(exOut.ret) = IF Len(a) < KeyPointCap THEN Len(a) ELSE KeyPointCap
           /\ \A i \in 1..Len(exOut.ret) : exOut.ret[i] = a[i]

\* C16 witness: an array of 11 elements, of which the first 10 are returned.
C16_Witness ==
  /\ ExEnded("extractKeyPoints") /\ IsArrayResponse(exChat)
  /\ Len(TextDoc(exChat.text).items) = KeyPointCap + 1
  /\ Len(exOut.ret) = KeyPointCap

----------------------------------------------------------------------------
(* Claims about the enrichment and the merge into the knowledge graph *)

Quiet == Running = {}
AllReturned == \A k \in 1..Len(merges) : merges[k].how = "returned"

\* the merges of a user that ran to their end and whose entity list holds the name
MergesWith(userId, name) ==
  {k \in 1..Len(merges) :
     /\ merges[k].userId = userId /\ merges[k].how = "returned"
     /\ InList(name, Names(merges[k].typedEntities))}

NodesLabelled(userId, label) ==
  {k \in 1..Len(nodes) : nodes[k].userId = userId /\ nodes[k].label = label}

\* C17: processDocumentWithAI never lets an error out: whatever fails, the
\* invocation ends in its catch block, and the document of the request is
\* still stored with its content.
C17_EnrichmentFailsSoft ==
  \A k \in 1..Len(merges) :
    /\ merges[k].how \in {"returned", "caught"}
    /\ \E d \in documents :
         /\ d.id = merges[k].docId /\ d.userId = merges[k].userId
         /\ d.content = merges[k].content /\ d.title \in Titles

\* C17 witness: the store failed while the connections were being written,
\* after the document row and nodes had been written.
C17_Witness ==
  /\ Len(merges) = 1 /\ merges[1].how = "caught"
  /\ Len(nodes) = 3 /\ nodes[1].connections # <<>> /\ nodes[2].connections = <<>>
  /\ \E d \in documents : d.id = merges[1].docId /\ d.summary = Summary

\* C18: with merges that do not overlap, the store holds at most one node per
\* owner and label, and a merge run again with the same entity list creates
\* no node.
C18_OneNodePerLabel ==
  /\ \A a, b \in 1..Len(nodes) :
       (nodes[a].userId = nodes[b].userId /\ nodes[a].label = nodes[b].label) => a = b
  /\ \A k \in 1..(Len(merges) - 1) :
       (/\ merges[k].how = "returned" /\ merges[k + 1].how = "returned"
        /\ merges[k].docId = merges[k + 1].docId
        /\ merges[k].typedEntities = merges[k + 1].typedEntities)
         => merges[k + 1].count = merges[k].count

\* C18 witness: the merge of a document with two entities was run twice.
C18_Witness ==
  /\ Len(merges) = 2 /\ AllReturned /\ Quiet
  /\ merges[1].docId = merges[2].docId
  /\ merges[1].typedEntities = merges[2].typedEntities
  /\ Len(merges[1].typedEntities) = 2
  /\ Len(nodes) = 3

\* the label was first stored by the entity loop of a merge
CreatedAsEntity(userId, name) ==
  \A k \in NodesLabelled(userId, name) : nodes[k].type # "document"

\* C19 as stated: after k merges whose entity lists each hold a name, from a
\* store without that label, one node has the label and its strength is
\* 1.0 + 0.5 * (k - 1).
C19_StrengthByMerges ==
  \A u \in Users, name \in {"React", "Hooks"} :
    (/\ Quiet /\ AllReturned
     /\ MergesWith(u, name) # {}
     /\ CreatedAsEntity(u, name))
      => /\ Cardinality(NodesLabelled(u, name)) = 1
         /\ \A n \in NodesLabelled(u, name) :
              nodes[n].strength =
                StrengthNew + StrengthStep * (Cardinality(MergesWith(u, name)) - 1)

\* how often a name occurs in the entity lists of the merges
RECURSIVE Mentions(_, _, _)
Mentions(userId, name, ks) ==
  IF ks = {} THEN 0
  ELSE LET k == CHOOSE x \in ks : TRUE
           typed == merges[k].typedEntities
       IN  Cardinality({x \in 1..Len(typed) : typed[x].name = name})
             + Mentions(userId, name, ks \ {k})

\* C19 amended: the strength is 1.0 + 0.5 * (m - 1), where m counts every
\* occurrence of the name in the entity lists of the merges, a name that a
\* list holds twice counting twice.
C19_StrengthByMentions ==
  \A u \in Users, name \in {"React", "Hooks"} :
    (/\ Quiet /\ AllReturned
     /\ MergesWith(u, name) # {}
     /\ CreatedAsEntity(u, name))
      => /\ Cardinality(NodesLabelled(u, name)) = 1
         /\ \A n \in NodesLabelled(u, name) :
              nodes[n].strength =
                StrengthNew
                  + StrengthStep * (Mentions(u, name, MergesWith(u, name)) - 1)

\* C19 witness: two merges, each with React once in its list; strength 1.5.
C19_Witness ==
  /\ Quiet /\ AllReturned /\ Len(merges) = 2
  /\ Names(merges[1].typedEntities) = <<"React">>
  /\ Names(merges[2].typedEntities) = <<"React", "Hooks">>
  /\ \E n \in NodesLabelled("u1", "React") :
       nodes[n].type # "document" /\ nodes[n].strength = StrengthNew + StrengthStep

\* the id of the node of a user with a label
IdOf(userId, label) == CHOOSE k \in NodesLabelled(userId, label) : TRUE

\* what one merge gives a node to connect to: the nodes of the other names
\* of the list and the node labelled with the title of the document
Neighbours(node, k) ==
  {IdOf(node.userId, x) : x \in {merges[k].typedEntities[y].name :
                                   y \in 1..Len(merges[k].typedEntities)}
                               \ {node.label}}
    \cup {IdOf(node.userId, (CHOOSE d \in documents : d.id = merges[k].docId).title)}

\* C20: after merges that do not overlap, the connections of every entity
\* node are the ids, each once, of the other entity nodes and of the document
\* node of every merged document whose entity list holds its label.
C20_ConnectionsAreUnion ==
  (Quiet /\ AllReturned) =>
    \A n \in 1..Len(nodes) :
      nodes[n].type # "document" =>
        /\ {nodes[n].connections[x] : x \in 1..Len(nodes[n].connections)}
             = UNION {Neighbours(nodes[n], k) : k \in MergesWith(nodes[n].userId, nodes[n].label)}
        /\ \A x, y \in 1..Len(nodes[n].connections) :
             nodes[n].connections[x] = nodes[n].connections[y] => x = y

\* C20 witness: an entity node that two documents connected to three nodes.
C20_Witness ==
  /\ Quiet /\ AllReturned /\ Len(merges) = 2
  /\ merges[1].docId # merges[2].docId
  /\ \E n \in 1..Len(nodes) :
       nodes[n].type # "document" /\ Len(nodes[n].connections) = 3

----------------------------------------------------------------------------
(* Properties of repeated merges *)

\* the log entries k and k+1 are two completed runs of the merge for the
\* same owner, document and entity list
SameMergeTwice(k) ==
  /\ k + 1 <= Len(merges)
  /\ merges[k].how = "returned" /\ merges[k + 1].how = "returned"
  /\ merges[k].userId = merges[k + 1].userId
  /\ merges[k].docId = merges[k + 1].docId
  /\ merges[k].typedEntities = merges[k + 1].typedEntities

\* C21: running the merge a second time, sequentially, with the same owner,
\* document and entity list leaves the set of existing nodes and the
\* connections of every node unchanged, and raises the strength of each
\* listed entity node.
C21_RerunKeepsGraphRaisesStrength ==
  \A k \in 1..Len(merges) :
    SameMergeTwice(k) =>
      LET before == merges[k].after
          after == merges[k + 1].after
      IN  /\ Len(after) = Len(before)
          /\ \A n \in 1..Len(before) :
               /\ after[n].id = before[n].id
               /\ after[n].userId = before[n].userId
               /\ after[n].label = before[n].label
               /\ after[n].connections = before[n].connections
               /\ InList(before[n].label, Names(merges[k].typedEntities))
                    => after[n].strength > before[n].strength

\* C21 witness: a document with two entities was merged twice; both entity
\* nodes are connected and stronger than after the first run.
C21_Witness ==
  /\ Len(merges) = 2 /\ SameMergeTwice(1)
  /\ Len(merges[1].typedEntities) = 2
  /\ merges[1].typedEntities[1].name # merges[1].typedEntities[2].name
  /\ Len(merges[2].after) = 3
  /\ \A n \in 1..2 : /\ merges[2].after[n].connections # <<>>
                     /\ merges[2].after[n].strength = StrengthNew + StrengthStep

----------------------------------------------------------------------------
(* Properties of merges that run at the same time *)

\* the tasks that take the step
Acting == {p \in Procs : proc'[p] # proc[p]}

\* every row a task has read belongs to the owner it runs for
ReadsOwnRows ==
  \A p \in Running :
    /\ proc[p].existing # NoNode => proc[p].existing.userId = proc[p].userId
    /\ \A k \in 1..Len(proc[p].nodes) : proc[p].nodes[k].userId = proc[p].userId

\* no connection leads to a node of another owner
NoCrossOwnerConnection ==
  \A n \in 1..Len(nodes) :
    \A x \in 1..Len(nodes[n].connections) :
      /\ nodes[n].connections[x] \in 1..Len(nodes)
      /\ nodes[nodes[n].connections[x]].userId = nodes[n].userId

\* a step that changes or adds a node is the step of one task, and the node
\* belongs to the owner that task runs for
WritesOwnRows ==
  nodes' # nodes =>
    \E p \in Procs :
      /\ Acting = {p}
      /\ Len(nodes') >= Len(nodes)
      /\ \A n \in 1..Len(nodes') :
           (n > Len(nodes) \/ nodes'[n] # nodes[n]) =>
             /\ nodes'[n].userId = proc[p].userId
             /\ n <= Len(nodes) => nodes[n].userId = proc[p].userId

\* C22: a merge for an owner reads and modifies only nodes of that owner:
\* under every interleaving of merges the nodes of every other owner are
\* left unchanged, and no node has a connection to a node of another owner.
C22_OwnerIsolation ==
  /\ [](ReadsOwnRows /\ NoCrossOwnerConnection)
  /\ [][WritesOwnRows]_vars

\* C22 witness: two owners merged documents with the same title and the same
\* entity name at the same time; each has its own two connected nodes.
C22_Witness ==
  /\ Quiet /\ Len(merges) = 2 /\ merges[1].overlap /\ merges[2].overlap
  /\ merges[1].userId # merges[2].userId
  /\ Names(merges[1].typedEntities) = <<"React">>
  /\ Names(merges[2].typedEntities) = <<"React">>
  /\ Len(nodes) = 4
  /\ \A n \in 1..4 : nodes[n].connections # <<>>
  /\ \E d1, d2 \in documents : d1.id # d2.id /\ d1.title = "Notes" /\ d2.title = "Notes"

\* the strength the merges give the label when they run one after the other
SequentialStrength(userId, name) ==
  StrengthNew + StrengthStep * (Mentions(userId, name, MergesWith(userId, name)) - 1)

\* none of the merges that list the name ran while another merge was running
NoneOverlapped(userId, name) ==
  \A k \in MergesWith(userId, name) : ~merges[k].overlap

\* C26: two merges of one owner that run at the same time and share a name
\* can end with two nodes of the same owner and label, and can end with a
\* strength below the one the same merges give one after the other (a lost
\* increment).  A race never gives more: no node is stronger than after the
\* sequential run, and merges that did not overlap end with one node of
\* exactly that strength.
C26_RacesOnlyLose ==
  \A u \in Users, name \in {"React", "Hooks"} :
    (/\ Quiet /\ AllReturned
     /\ MergesWith(u, name) # {}
     /\ CreatedAsEntity(u, name))
      => /\ NodesLabelled(u, name) # {}
         /\ \A n \in NodesLabelled(u, name) :
              nodes[n].strength <= SequentialStrength(u, name)
         /\ NoneOverlapped(u, name) =>
              /\ Cardinality(NodesLabelled(u, name)) = 1
              /\ \A n \in NodesLabelled(u, name) :
                   nodes[n].strength = SequentialStrength(u, name)

\* C26 witness: two merges of one owner, each with React twice in its list,
\* interleaved: both created a node labelled React, and both raised the same
\* node from the same value, so that one of four mentions left no trace and
\* the strongest node has 1.5 where the sequential run gives 2.5.
C26_Witness ==
  /\ Quiet /\ Len(merges) = 2 /\ merges[1].overlap /\ merges[2].overlap
  /\ merges[1].userId = "u1" /\ merges[2].userId = "u1"
  /\ Names(merges[1].typedEntities) = <<"React", "React">>
  /\ Names(merges[2].typedEntities) = <<"React", "React">>
  /\ CreatedAsEntity("u1", "React")
  /\ NodesLabelled("u1", "React") = {1, 2}
  /\ nodes[1].strength = StrengthNew + StrengthStep
  /\ nodes[2].strength = StrengthNew
  /\ SequentialStrength("u1", "React") = StrengthNew + 3 * StrengthStep

\* C32: the strength of a node never decreases: under every interleaving
\* of merges of one owner, each write of a strength stores a value at least
\* as high as the one stored just before.
C32_StrengthNeverDecreases ==
  [][ \A n \in 1..Len(nodes) : nodes'[n].strength >= nodes[n].strength ]_vars

----------------------------------------------------------------------------
(* Properties of the document row *)

\* C23: enrichment, on its first run or on a re-run, writes only the AI
\* fields of the document it was started for: no step changes the content,
\* the title, the owner or the id of a document, and a row only changes in
\* the document.update of a task running for it.
C23_OnlyAiFieldsWritten ==
  [][ \A d \in documents :
        \E e \in documents' :
          /\ e.id = d.id /\ e.userId = d.userId
          /\ e.title = d.title /\ e.content = d.content
          /\ e # d => \E p \in Procs : /\ proc[p].pc = "docUpdate"
                                       /\ proc[p].docId = d.id
                                       /\ proc'[p].pc = "entities" ]_vars

\* C23 witness: a document was enriched and enriched again with another
\* entity list; its AI fields hold the second result, its content is the
\* uploaded one.
C23_Witness ==
  /\ Quiet /\ Len(merges) = 2 /\ AllReturned
  /\ merges[1].docId = merges[2].docId
  /\ merges[1].typedEntities = <<Entity("Hooks", "idea")>>
  /\ \E d \in documents :
       /\ d.id = merges[2].docId
       /\ d.title = "Notes" /\ d.content = [length |-> 400, file |-> FALSE]
       /\ d.summary = Summary /\ d.embedding = Embedding
       /\ d.entities = <<"React", "Hooks">> /\ d.tags = <<"React", "Hooks">>
       /\ d.keyPoints = KeyPoints

----------------------------------------------------------------------------
(* Properties of the join of the extractors *)

\* the node rows an invocation left hold a node of its owner for every name
\* of its entity list
MergePerformed(k) ==
  \A x \in 1..Len(merges[k].typedEntities) :
    \E n \in 1..Len(merges[k].after) :
      /\ merges[k].after[n].userId = merges[k].userId
      /\ merges[k].after[n].label = merges[k].typedEntities[x].name

\* C24: within one enrichment the graph merge depends only on the typed
\* entities: once extractEntitiesWithTypes has returned its list, the merge
\* is performed unless a store call fails, also when generateSummary fails.
C24_MergeNeedsOnlyEntities ==
  \A k \in 1..Len(merges) :
    merges[k].cause # "store" => MergePerformed(k)

----------------------------------------------------------------------------
(* Properties of generateEmbeddingSimple *)

WhiteSpaceOnly(t) == \A k \in 1..Len(t) : IsSpace(t[k])

\* C25: generateEmbeddingSimple on the empty string returns the vector of
\* length 128 whose components are all zero, not divided by the norm, and so
\* it does on a text made only of white space.
C25_EmptyTextZeroVector ==
  (emPc = "returned" /\ WhiteSpaceOnly(emText)) =>
    /\ Len(emOut) = Dim
    /\ \A e \in 1..Dim : emOut[e] = Number(0, 1)

\* C25 witness: the call returned for a text of a space and a line feed.
C25_Witness ==
  /\ emPc = "returned" /\ emText = <<32, 10>>
  /\ Len(emOut) = Dim /\ emOut[1] = Number(0, 1)

----------------------------------------------------------------------------
(* Properties of the document node *)

SetOf(seq) == {seq[x] : x \in 1..Len(seq)}

\* the ids of the nodes that stand for the names of the entity list of the
\* merge k, in the rows the merge left
EntityNodeIds(k) ==
  {n \in 1..Len(merges[k].after) :
     /\ merges[k].after[n].userId = merges[k].userId
     /\ InList(merges[k].after[n].label, Names(merges[k].typedEntities))}

\* a node created by the merge k as its document node is as the create call
\* made it
CreatedDocNodeAsSeeded(k) ==
  merges[k].created =>
    LET d == merges[k].after[merges[k].docNode] IN
      /\ d.strength = StrengthDoc
      /\ SetOf(d.connections) = EntityNodeIds(k)
      /\ Len(d.connections) = Cardinality(EntityNodeIds(k))

\* C28: after every completed merge the node the call used as its document
\* node, the one labelled with the title of the document, has type document;
\* if the call created it, its strength is 2.0 and its connections are the
\* ids of the entity nodes of the call.
C28_DocumentNodeIsDocument ==
  \A k \in 1..Len(merges) :
    merges[k].how = "returned" =>
      /\ merges[k].after[merges[k].docNode].type = "document"
      /\ CreatedDocNodeAsSeeded(k)

\* C29: once a document node has been created, no later step of any merge
\* changes its connections, also not a merge of a document with the same
\* title that brings new entity nodes pointing to it.
C29_DocumentNodeConnectionsFixed ==
  [][ \A n \in 1..Len(nodes) :
        nodes[n].type = "document" =>
          nodes'[n].connections = nodes[n].connections ]_vars

----------------------------------------------------------------------------
(* Properties of interrupted merges *)

\* in the rows the merge k left, the node of the name has a connection to
\* the node labelled with the title of the document
ConnectedToDocument(k, name) ==
  \E n, d \in 1..Len(merges[k].after) :
    /\ merges[k].after[n].userId = merges[k].userId
    /\ merges[k].after[n].label = name
    /\ merges[k].after[d].userId = merges[k].userId
    /\ merges[k].after[d].label = DocOfId(merges[k].docId).title
    /\ InList(d, merges[k].after[n].connections)

\* C30: a merge interrupted by a store error leaves no entity half done:
\* every entity whose strength write was made before the interruption also
\* has its connection update, and only the entities not yet reached miss
\* their updates.
C30_InterruptedMergeConsistent ==
  \A k \in 1..Len(merges) :
    merges[k].cause = "store" =>
      \A x \in 1..Len(merges[k].typedEntities) :
        x < merges[k].i => ConnectedToDocument(k, merges[k].typedEntities[x].name)

----------------------------------------------------------------------------
(* Properties of the candidate loop *)

\* a phase of the network call to the current candidate is pending: the
\* request is out, or the body of the response is being read
CallPending == call = "chat" /\ pc \in {"fetch", "errBody", "okBody"}

\* C31: every phase of the network call to a candidate is covered by the
\* timeout: whenever the request is out or the response body is being read,
\* the abort timer is armed.
C31_TimerCoversCall == CallPending => timer

\* C36: within one nvidiaChat call no model is called more than once, also
\* when the caller's explicit model is one of MODELS: the network calls of
\* the call name pairwise different models.
C36_NoModelCalledTwice ==
  call = "chat" =>
    \A i, j \in 1..Len(netCalls) : netCalls[i] = netCalls[j] => i = j

ChatEnded == call = "chat" /\ pc \in {"returned", "thrown"}

\* C37: provided each network call terminates, every nvidiaChat call
\* terminates, returning a completion or raising, after at most as many
\* network calls as its candidate list has entries; the k-th network call
\* is the call for the k-th entry, so no entry is tried again.
C37_ChatTerminates ==
  /\ [](call = "chat" =>
          /\ Len(netCalls) <= Len(modelsToTry)
          /\ \A k \in 1..Len(netCalls) : netCalls[k] = modelsToTry[k]
          /\ Len(attempts) <= Len(netCalls))
  /\ (call = "chat") ~> ChatEnded

\* C37 witness: a call with an explicit model ended by raising after four
\* network calls, one for each entry of its list.
C37_Witness ==
  /\ ChatEnded /\ pc = "thrown" /\ Len(modelsToTry) = 4
  /\ netCalls = modelsToTry /\ Len(attempts) = 4

\* C38: the content events of the output do not depend on how the upstream
\* bytes are split into reads: however the byte stream is cut, also inside
\* a data: line, the output holds one re-framed event for each line of the
\* whole stream that carries a non-empty delta, in order.
C38_ChunkingIndependent ==
  Uncancelled => ContentEvents = Reframed(BeforeEnd(UpstreamLines))

----------------------------------------------------------------------------
(* Properties of the connection writes *)

\* C33: the connections of a node never lose a member: under every
\* interleaving of merges of one owner, each write of connections stores a
\* superset of the set stored just before.
C33_ConnectionsNeverShrink ==
  [][ \A n \in 1..Len(nodes) :
        SetOf(nodes[n].connections) \subseteq SetOf(nodes'[n].connections) ]_vars

\* C34: no node is connected to itself, whatever the title of the document
\* and its entity list, also when the title is the name of one of the
\* entities.
C34_NoSelfConnection ==
  \A n \in 1..Len(nodes) : ~InList(nodes[n].id, nodes[n].connections)

IsEntityNode(n) == nodes[n].type \in {"concept", "entity", "idea"}

\* C35: after every completed merge of a sequential history the edges
\* between entity nodes are symmetric: for two nodes of type concept, entity
\* or idea, the id of one is in the connections of the other if and only if
\* the id of the other is in its own.
C35_EntityEdgesSymmetric ==
  (Quiet /\ AllReturned) =>
    \A a, b \in 1..Len(nodes) :
      (IsEntityNode(a) /\ IsEntityNode(b)) =>
        (InList(a, nodes[b].connections) <=> InList(b, nodes[a].connections))

====
